---- MODULE Spec2Model ----
(***************************************************************************)
(* Session/authentication core of quick-bill-blaster: the custom auth      *)
(* service (CustomAuthService), the verify-google-token edge function,     *)
(* the backend user store, the client-side RateLimiter, the entitlement    *)
(* queries of useSubscription and the two checkout functions               *)
(* (create-checkout-session, create-checkout-session-custom), as state     *)
(* machines.                                                               *)
(*                                                                         *)
(* Spec, SpecReliable, SpecListeners, SpecReentrant and SpecSignIn run the *)
(* same actions of the session core in different environments;             *)
(* SpecVerifier runs the edge function alone, SpecLimiter and              *)
(* SpecLimiterFaults the rate limiter, SpecEntitlement the entitlements.   *)
(* SpecFeatures asks the feature questions (hasFeature, checkAccess,       *)
(* FeatureGate), SpecSubscription follows the hook over changing users,    *)
(* SpecRestart starts new processes over the persisted session, SpecIdle   *)
(* mounts the provider with its idle monitor, and SpecThrottle runs the    *)
(* call sites of the rate limiter next to signInWithGoogle.  SpecThrowing  *)
(* and SpecUnsubscribe register and remove listeners, SpecAuthAttempts     *)
(* runs password sign-ins and sign-ups against their shared budget,        *)
(* SpecCheckoutThrottle the server-side throttle of checkout requests and  *)
(* SpecCheckout the get-or-create of the billing customer.                 *)
(*                                                                         *)
(* Time is in milliseconds, as Date.now().  JavaScript runs every handler  *)
(* to completion, so an action is one synchronous segment: from a call or  *)
(* the resumption of an await to the next await or the return.             *)
(***************************************************************************)
EXTENDS Integers, Sequences, FiniteSets, TLC

\* ------------------------------------------------------------------ bounds

\* Sign-in calls that may be in flight together.
MaxProcs == 1
\* Advances of the clock in one behaviour.
MaxTicks == 2
\* Checkout requests that may be served together.
MaxRequests == 2
\* Registered auth-state listeners.
MaxListeners == 2
\* The largest limit a rate-limit check is called with.
MaxLimit == 2
\* The largest number of existing invoices or clients asked about, besides
\* one very large number.
MaxCount == 11
\* The firings of the provider's interval a run may see.
MaxPolls == 33

\* ------------------------------------------------------- program constants

\* expires_at: Date.now() + (24 * 60 * 60 * 1000)
SessionValidityMs == 24 * 60 * 60 * 1000
\* exp of the access token payload: iat + (24 * 60 * 60), in seconds
TokenValiditySec == 24 * 60 * 60
\* Deno.env.get('GOOGLE_CLIENT_ID')
expectedAudience == "client-id"

\* The clock's first reading, and the steps it may advance by.
ClockStart == 2 * SessionValidityMs
Deltas == {1, SessionValidityMs}

\* Math.floor(Date.now() / 1000)
NowSec(t) == t \div 1000

\* ------------------------------------------------------------ JS values

\* null (a session, a user) and a missing localStorage key.
Null == [kind |-> "null"]
Absent == << >>

\* Date.now().toString() and parseInt of it: the item holds the number.
toString(t) == <<t>>
parseInt(str) == str[1]

\* -------------------------------------------------- identity assertions

\* An id_token: what the client decodes from it (decodable, payload) and what
\* the provider's tokeninfo endpoint answers for it (ok, and the token data).
Tok(dec, ok, aud, exp, ev, sub, email, name, csub, cemail) ==
    [decodable |-> dec, ok |-> ok, aud |-> aud, exp |-> exp,
     email_verified |-> ev, sub |-> sub, email |-> email, name |-> name,
     picture |-> name, csub |-> csub, cemail |-> cemail]

FarExp == NowSec(ClockStart) + 30 * TokenValiditySec

Credentials ==
    [ A    |-> Tok(TRUE, TRUE, expectedAudience, FarExp, TRUE, "gA", "a@x", "Ann", "gA", "a@x"),
      A2   |-> Tok(TRUE, TRUE, expectedAudience, FarExp, TRUE, "gA", "a@x", "Anna", "gA", "a@x"),
      B    |-> Tok(TRUE, TRUE, expectedAudience, FarExp, TRUE, "gB", "b@x", "Bob", "gB", "b@x"),
      bad  |-> Tok(TRUE, FALSE, expectedAudience, FarExp, TRUE, "gA", "a@x", "forged", "gA", "a@x"),
      aud  |-> Tok(TRUE, TRUE, "other-app", FarExp, TRUE, "gA", "a@x", "other-app", "gA", "a@x"),
      old  |-> Tok(TRUE, TRUE, expectedAudience, NowSec(ClockStart) - 1, TRUE, "gA", "a@x", "expired", "gA", "a@x"),
      unv  |-> Tok(TRUE, TRUE, expectedAudience, FarExp, FALSE, "gB", "b@x", "unverified", "gB", "b@x"),
      mis  |-> Tok(TRUE, TRUE, expectedAudience, FarExp, TRUE, "gB", "b@x", "mismatch", "gA", "a@x"),
      junk |-> Tok(FALSE, FALSE, "", 0, FALSE, "", "", "", "", "") ]

CredNames == DOMAIN Credentials
CoreCreds == {"A", "B", "bad", "junk"}

\* decodeGoogleToken: the payload's claims, or null when the token does not decode.
decodeGoogleToken(c) ==
    IF Credentials[c].decodable
    THEN [kind |-> "googleUser", id |-> Credentials[c].csub,
          email |-> Credentials[c].cemail, name |-> Credentials[c].name,
          picture |-> Credentials[c].picture]
    ELSE Null

\* ------------------------------------------- verify-google-token (server)

\* A request to the function: the method, whether the body parses as a JSON
\* object, the fields it carries and what tokeninfo answers for the credential.
Request(method, json, hasCred, hasUser, tok) ==
    [method |-> method, json |-> json, hasCredential |-> hasCred,
     hasGoogleUser |-> hasUser, tok |-> tok]

Response(status, body, reason) == [status |-> status, body |-> body, reason |-> reason]

\* The catch block: status 401 with the thrown error's message as the body.
CatchBlock(message, reason) == Response(401, message, reason)

\* Faulty variant: the token data is not compared with the googleUser the
\* client sent.
VerifyChecksWithoutDataMatch(req, t) ==
    LET tokenData == req.tok IN
    IF ~tokenData.ok THEN CatchBlock("Invalid Google token", "InvalidAssertion")
    ELSE IF tokenData.aud # expectedAudience
         THEN CatchBlock("Token audience mismatch", "AudienceMismatch")
    ELSE IF tokenData.exp < NowSec(t)
         THEN CatchBlock("Token has expired", "Expired")
    ELSE IF ~tokenData.email_verified
         THEN CatchBlock("Email not verified by Google", "EmailUnverified")
    ELSE IF ~req.hasGoogleUser
         THEN CatchBlock("TypeError", "MalformedInput")
    ELSE Response(200, "verified", "ok")

\* The checks between the tokeninfo call and the success response, in the
\* order of the code; each throw is answered by the catch block.
VerifyChecks(req, t) ==
    LET tokenData == req.tok IN
    IF ~tokenData.ok THEN CatchBlock("Invalid Google token", "InvalidAssertion")
    ELSE IF tokenData.aud # expectedAudience
         THEN CatchBlock("Token audience mismatch", "AudienceMismatch")
    ELSE IF tokenData.exp < NowSec(t)
         THEN CatchBlock("Token has expired", "Expired")
    ELSE IF ~tokenData.email_verified
         THEN CatchBlock("Email not verified by Google", "EmailUnverified")
    ELSE IF ~req.hasGoogleUser
         THEN CatchBlock("TypeError", "MalformedInput")
    ELSE IF tokenData.sub # tokenData.csub \/ tokenData.email # tokenData.cemail
         THEN CatchBlock("Token data mismatch", "DataMismatch")
    ELSE Response(200, "verified", "ok")

\* The serve handler, from the method checks to the response.
ServeVerify(req, t) ==
    IF req.method = "OPTIONS" THEN Response(200, "ok", "preflight")
    ELSE IF req.method # "POST" THEN Response(405, "Method not allowed", "method")
    ELSE IF ~req.json THEN CatchBlock("SyntaxError", "MalformedInput")
    ELSE IF ~req.hasCredential THEN Response(400, "No credential provided", "MalformedInput")
    ELSE VerifyChecks(req, t)

\* ------------------------------------------------------------------ state

VARIABLES
    now,          \* Date.now()
    ticks,        \* advances of the clock so far
    session,      \* CustomAuthService.session
    stored,       \* localStorage['custom_auth_session'], serialized
    lastActivity, \* localStorage['last_activity'], or Absent
    listeners,    \* CustomAuthService.listeners, in registration order
    batch,        \* the listener calls made by the latest step, in order
    users,        \* the rows of user_profiles
    procs,        \* the signInWithGoogle calls: position, credential, result
    last,         \* the call of the service that returned in the latest step
    mint,         \* history: the session minted last, and whether signOut was called since
    lazyExpired,  \* history: isAuthenticated found the session expired, no sign-in since
    vreq,         \* verify-google-token: the request being served
    vresp,        \* verify-google-token: its response, or Null while pending
    vprev,        \* verify-google-token: the response before that
    rlStore,      \* localStorage['rate_limit_<action>'], for every action
    rlLast,       \* the call of the rate limiter that returned in the latest step
    rlRun,        \* history: per action, the calls made since its key was empty
    subscription, \* useSubscription: the mirrored subscription record, or null
    entLast,      \* the entitlement query that returned in the latest step
    hookUser,     \* useSubscription: the user of useCustomAuth(), or null
    fetching,     \* useSubscription: the users whose fetchSubscription is in flight
    nextPoll,     \* CustomAuthProvider: when its interval fires next, 0 with no provider
    rateLimits,   \* create-checkout-session: the rateLimits map of the instance
    subscribers,  \* subscribers.stripe_customer_id, by user_id
    customers,    \* the customers created at the payment provider
    checkouts,    \* the checkout requests being served, and where each stands
    response      \* the response a checkout function sent in the latest step, if any

authVars == <<now, ticks, session, stored, lastActivity, listeners, batch, users,
              procs, last, mint, lazyExpired>>
verifierVars == <<vreq, vresp, vprev>>
limiterVars == <<rlStore, rlLast, rlRun>>
entitlementVars == <<subscription, entLast, hookUser, fetching>>
providerVars == <<nextPoll>>
checkoutVars == <<rateLimits, subscribers, customers, checkouts, response>>
vars == <<now, ticks, session, stored, lastActivity, listeners, batch, users,
          procs, last, mint, lazyExpired, vreq, vresp, vprev,
          rlStore, rlLast, rlRun, subscription, entLast, hookUser, fetching,
          nextPoll, rateLimits, subscribers, customers, checkouts, response>>

Procs == 1..MaxProcs

\* The callbacks a component may register; cbThrows raises in every call.
Callbacks == {"cbProvider", "cbThrows"}
Throws(cb) == cb = "cbThrows"

\* Callbacks that call back into the service: cbSignsOut calls
\* customAuth.signOut() when it is handed a session.
ReentrantCallbacks == {"cbProvider", "cbSignsOut"}
SignsOut(cb) == cb = "cbSignsOut"

\* ------------------------------------------------------ session values

\* generateAccessToken: btoa(JSON.stringify({sub, email, iat, exp})).
generateAccessToken(user, t) ==
    <<user.id, user.email, NowSec(t), NowSec(t) + TokenValiditySec>>

\* Faulty variant: the session's validity taken in seconds, as the token's is.
NewSessionInSeconds(userData, t) ==
    [kind |-> "session", user |-> userData,
     access_token |-> generateAccessToken(userData, t),
     expires_at |-> t + TokenValiditySec]

\* The session object signInWithGoogle builds from the upserted user.
NewSession(userData, t) ==
    [kind |-> "session", user |-> userData,
     access_token |-> generateAccessToken(userData, t),
     expires_at |-> t + SessionValidityMs]

\* Faulty variant: the expiry is written in seconds.
StringifyExpiryInSeconds(s) ==
    <<s.user.id, s.user.email, s.user.name, s.user.picture, s.user.google_id,
      s.access_token, s.expires_at \div 1000>>

\* JSON.stringify(session) and JSON.parse of it.
Stringify(s) ==
    <<s.user.id, s.user.email, s.user.name, s.user.picture, s.user.google_id,
      s.access_token, s.expires_at>>

Parse(str) ==
    [kind |-> "session",
     user |-> [id |-> str[1], email |-> str[2], name |-> str[3],
               picture |-> str[4], google_id |-> str[5]],
     access_token |-> str[6], expires_at |-> str[7]]

\* getSession(): the in-memory session.
getSession == session

\* saveSessionToStorage, when localStorage.setItem does not throw.
saveSessionToStorage(s) == IF s # Null THEN Stringify(s) ELSE Absent

\* listener(this.session): the callback, the session it is passed, what
\* localStorage holds for the session key during the call, and the setSession
\* that makes the call (1: the one of this step, 2: one made inside a callback).
Call(cb, s, st, tr) ==
    [cb |-> cb, value |-> s, threw |-> Throws(cb), persisted |-> st, tr |-> tr]

\* Faulty variant: no try/catch around the call, so the first listener that
\* throws ends the loop.
notifyListenersUncaught(ls, s, st) ==
    LET stop == IF \E i \in 1..Len(ls) : Throws(ls[i])
                THEN CHOOSE i \in 1..Len(ls) :
                        Throws(ls[i]) /\ \A j \in 1..(i - 1) : ~Throws(ls[j])
                ELSE Len(ls)
    IN [i \in 1..stop |-> Call(ls[i], s, st, 1)]

\* The forEach of notifyListeners from listener i on, in the setSession tr:
\* each listener is called with this.session as it is at the call.  A
\* callback that signs out runs signOut() to its end inside the call (signOut
\* awaits nothing): setSession(null) clears the session and the storage key
\* and notifies every listener, and the forEach then goes on from i + 1.
RECURSIVE notifyFrom(_, _, _, _, _)
notifyFrom(ls, i, s, st, tr) ==
    IF i > Len(ls) THEN << >>
    ELSE IF SignsOut(ls[i]) /\ s # Null
    THEN <<Call(ls[i], s, st, tr)>> \o notifyFrom(ls, 1, Null, Absent, tr + 1)
                                   \o notifyFrom(ls, i + 1, Null, Absent, tr)
    ELSE <<Call(ls[i], s, st, tr)>> \o notifyFrom(ls, i + 1, s, st, tr)

\* notifyListeners: every registered listener is called with this.session, in
\* order; a listener that throws is caught and the loop goes on.
notifyListeners(ls, s, st) == notifyFrom(ls, 1, s, st, 1)

\* Faulty variant: the listeners are notified before the session is saved.
setSessionNotifiesFirst(ls, s, old) == notifyListeners(ls, s, old)

\* setSession: this.session = session; saveSessionToStorage(); notifyListeners().
\* The listener calls it makes, when the save does not throw.
setSession(ls, s, old) == notifyListeners(ls, s, saveSessionToStorage(s))

\* A callback signed out during the calls b.
SignedOutInside(b) == \E i \in 1..Len(b) : b[i].tr > 1

\* ---------------------------------------------------------- user store

\* The primary key the database gives a new row: unique to the row.  Rows are
\* never deleted and google_id is UNIQUE, so the key is named after it.
NewId(google_id) == <<"id", google_id>>

\* upsert on user_profiles with onConflict: 'google_id' (a UNIQUE column):
\* the row of that google_id is updated, or a row with a fresh id inserted.
UpsertRow(rows, googleUser) ==
    IF \E r \in rows : r.google_id = googleUser.id
    THEN LET r == CHOOSE r \in rows : r.google_id = googleUser.id
         IN [r EXCEPT !.email = googleUser.email, !.full_name = googleUser.name,
                      !.avatar_url = googleUser.picture]
    ELSE [id |-> NewId(googleUser.id), google_id |-> googleUser.id,
          email |-> googleUser.email, full_name |-> googleUser.name,
          avatar_url |-> googleUser.picture]

\* Faulty variant: a plain insert, with no conflict target.
UpsertInsertsAlways(rows, googleUser) ==
    rows \cup {[id |-> NewId(googleUser.id), google_id |-> googleUser.id,
                email |-> googleUser.email, full_name |-> googleUser.name,
                avatar_url |-> googleUser.picture]}

Upsert(rows, googleUser) ==
    {r \in rows : r.google_id # googleUser.id} \cup {UpsertRow(rows, googleUser)}

\* The CustomUser createOrUpdateUser returns for the row.
CustomUser(data, googleUser) ==
    [id |-> data.id, email |-> data.email,
     name |-> IF data.full_name # "" THEN data.full_name ELSE googleUser.name,
     picture |-> data.avatar_url, google_id |-> data.google_id]

\* ------------------------------------------- CustomAuthProvider, timers

\* sessionManager.IDLE_TIMEOUT and the period of the provider's setInterval.
IDLE_TIMEOUT == 30 * 60 * 1000
PollMs == 60000

NoProvider == 0

\* How long the page stays closed before it is opened again.
Downtime == 2 * 60 * 60 * 1000

\* The effect on [user] clears its interval and sets a new one whenever the
\* listener of the provider is handed a session or null in place of a
\* session: the next firing is one period after t.
ResetTimer(t) == IF nextPoll # NoProvider THEN t + PollMs ELSE nextPoll

\* sessionManager.getLastActivity(): the stored instant, or now without one.
getLastActivity(la, t) == IF la # Absent THEN parseInt(la) ELSE t

\* sessionManager.isSessionExpired(lastActivity)
isSessionExpired(la, t) == t - la > IDLE_TIMEOUT

\* --------------------------------------------------------------- clock

\* No call of the service returned in this step, and no listener was called.
NoCall == [op |-> "none", ret |-> "void", user |-> Null, error |-> ""]
NoMint == [live |-> FALSE, uid |-> << >>, at |-> 0]
NoCheck == [op |-> "none", action |-> "", limit |-> 0, windowMs |-> 0,
            allowed |-> FALSE, remaining |-> 0, failed |-> FALSE]
NoQuery ==
    [op |-> "none", count |-> 0, required |-> "", feature |-> << >>, ret |-> FALSE]

NoCustomer == << >>
NoResponse == [fn |-> "", status |-> 0, error |-> "", user |-> "", customer |-> NoCustomer]

Tick(d) ==
    /\ ticks < MaxTicks
    /\ now' = now + d
    /\ ticks' = ticks + 1
    /\ last' = NoCall
    /\ batch' = << >>
    /\ rlLast' = NoCheck
    /\ entLast' = NoQuery
    /\ UNCHANGED <<session, stored, lastActivity, listeners, users, procs,
                   mint, lazyExpired, vreq, vresp, vprev>>
    /\ response' = NoResponse
    /\ UNCHANGED <<rlStore, rlRun, subscription, hookUser, fetching>>
    /\ UNCHANGED providerVars
    /\ UNCHANGED <<rateLimits, subscribers, customers, checkouts>>

\* ------------------------------------------------------ CustomAuthService

Returned(op, ret) == [op |-> op, ret |-> ret, user |-> Null, error |-> ""]

InFlight(p) == procs[p].pc \in {"awaitVerify", "awaitUpsert"}

\* A signOut that completes while a sign-in is in flight (history).
MarkSignedOut(ps) ==
    [p \in Procs |-> IF ps[p].pc \in {"awaitVerify", "awaitUpsert"}
                     THEN [ps[p] EXCEPT !.signedOutSince = TRUE] ELSE ps[p]]

\* Faulty variant: the clock read in seconds against an expiry in milliseconds.
SessionExpiredInSeconds(s, t) == NowSec(t) > s.expires_at

\* The Date.now() > this.session.expires_at test of isAuthenticated.
SessionExpired(s, t) == t > s.expires_at

\* signOut(): setSession(null) (assign, removeItem, notify), removeItem again,
\* then sessionManager.updateLastActivity(), whose setItem may throw into the
\* catch of signOut.
signOutBody(activityThrows) ==
    /\ session' = Null
    /\ stored' = saveSessionToStorage(Null)
    /\ batch' = setSession(listeners, Null, stored)
    /\ lastActivity' = IF activityThrows THEN lastActivity ELSE toString(now)
    /\ procs' = MarkSignedOut(procs)

SignOut(activityThrows) ==
    /\ signOutBody(activityThrows)
    /\ last' = Returned("signOut", "void")
    /\ mint' = NoMint
    /\ UNCHANGED <<now, ticks, listeners, users, lazyExpired, vreq, vresp, vprev>>
    /\ UNCHANGED limiterVars
    /\ UNCHANGED entitlementVars
    /\ nextPoll' = IF session # Null THEN ResetTimer(now) ELSE nextPoll
    /\ UNCHANGED checkoutVars

\* isAuthenticated(): false without a session; an expired session is signed
\* out by the check itself; true otherwise.
IsAuthenticated(activityThrows) ==
    /\ IF session = Null
       THEN /\ last' = Returned("isAuthenticated", "false")
            /\ batch' = << >>
            /\ UNCHANGED <<session, stored, lastActivity, procs, lazyExpired>>
       ELSE IF SessionExpired(session, now)
       THEN /\ signOutBody(activityThrows)
            /\ lazyExpired' = TRUE
            /\ last' = Returned("isAuthenticated", "false")
       ELSE /\ last' = Returned("isAuthenticated", "true")
            /\ batch' = << >>
            /\ UNCHANGED <<session, stored, lastActivity, procs, lazyExpired>>
    /\ UNCHANGED <<now, ticks, listeners, users, mint, vreq, vresp, vprev>>
    /\ UNCHANGED limiterVars
    /\ UNCHANGED entitlementVars
    /\ nextPoll' = IF session # Null /\ SessionExpired(session, now)
                   THEN ResetTimer(now) ELSE nextPoll
    /\ UNCHANGED checkoutVars

\* Faulty variant: the current session is replayed to the new callback.
registrationReplays(cb, s, st) == <<Call(cb, s, st, 1)>>

\* The listener calls onAuthStateChange makes: none, it only pushes.
registrationCalls(cb, s, st) == << >>

\* onAuthStateChange(callback): the callback is pushed, and not called; the
\* unsubscribe closure is returned.
OnAuthStateChange(cb) ==
    /\ Len(listeners) < MaxListeners
    /\ listeners' = Append(listeners, cb)
    /\ last' = Returned("onAuthStateChange", "unsubscribe")
    /\ batch' = registrationCalls(cb, session, stored)
    /\ UNCHANGED <<now, ticks, session, stored, lastActivity, users, procs,
                   mint, lazyExpired, vreq, vresp, vprev>>
    /\ UNCHANGED limiterVars
    /\ UNCHANGED entitlementVars
    /\ UNCHANGED providerVars
    /\ UNCHANGED checkoutVars

\* The closure onAuthStateChange(callback) returned is called: the listeners
\* become those that are not that callback function.
unsubscribe(ls, callback) == SelectSeq(ls, LAMBDA listener : listener # callback)

Unsubscribe(cb) ==
    /\ listeners' = unsubscribe(listeners, cb)
    /\ last' = Returned("unsubscribe", cb)
    /\ batch' = << >>
    /\ UNCHANGED <<now, ticks, session, stored, lastActivity, users, procs,
                   mint, lazyExpired, vreq, vresp, vprev>>
    /\ UNCHANGED limiterVars
    /\ UNCHANGED entitlementVars
    /\ UNCHANGED providerVars
    /\ UNCHANGED checkoutVars

\* What a new process may find under the session key that is not the
\* JSON of a session: text that JSON.parse rejects, and an object with no
\* expires_at.
Unparsable == <<"{\"user\":">>
EmptyObject == <<"{}">>
Found == {"asis", "unparsable", "emptyObject"}

FoundValue(found, st) ==
    CASE found = "asis" -> st
      [] found = "unparsable" -> Unparsable
      [] found = "emptyObject" -> EmptyObject

\* Faulty variant: a session expiring at this very instant is still loaded.
SessionStillValidInclusive(s, t) == t <= s.expires_at

\* The Date.now() < session.expires_at test of loadSessionFromStorage.
SessionStillValid(s, t) == t < s.expires_at

\* loadSessionFromStorage(): the session and the stored value it leaves.  A
\* value that does not parse throws into the catch, which clears the key; a
\* parsed value with no expires_at fails the comparison, and is cleared too.
loadSessionFromStorage(st, t) ==
    IF st = Absent THEN [session |-> Null, stored |-> Absent]
    ELSE IF st = Unparsable THEN [session |-> Null, stored |-> Absent]
    ELSE IF st = EmptyObject THEN [session |-> Null, stored |-> Absent]
    ELSE IF SessionStillValid(Parse(st), t) THEN [session |-> Parse(st), stored |-> st]
    ELSE [session |-> Null, stored |-> Absent]

\* ------------------------------------------------------ signInWithGoogle

\* A sign-in that is not running; vstatus is the verifier's answer to the
\* one that is, signedOutSince whether a signOut completed since it began.
Idle == [pc |-> "idle", cred |-> "none", vstatus |-> 0, signedOutSince |-> FALSE]

\* Faulty variant: the catch block swallows the failure and returns
\* {user: null, error: null}.
SignInReturnedNoError(ret, message) ==
    [op |-> "signInWithGoogle", ret |-> ret, user |-> Null, error |-> ""]

\* What a sign-in returns from its catch block: {user: null, error}, the
\* promise resolved.
SignInReturned(ret, message) ==
    [op |-> "signInWithGoogle", ret |-> ret, user |-> Null, error |-> message]

\* What a sign-in returns at the end of its try block: {user, error: null}.
SignInSucceeded(userData) ==
    [op |-> "signInWithGoogle", ret |-> "ok", user |-> userData, error |-> ""]

\* Faulty variant: only an unreachable function counts as an error, as with a
\* bare fetch, which resolves for every HTTP status.
verificationErrorUnreachableOnly(resp) == resp.status = 0

\* supabase.functions.invoke answers an error for every response that is not
\* 2xx, and when the function cannot be reached (status 0 here).
verificationError(resp) == resp.status < 200 \/ resp.status > 299

\* The call, to the first await: the credential is decoded and the
\* verification request sent, or the decoding fails.
SignInStart(p, c) ==
    /\ procs[p].pc = "idle"
    /\ IF decodeGoogleToken(c) = Null
       THEN /\ UNCHANGED procs
            /\ last' = SignInReturned("error", "Invalid Google credential")
       ELSE /\ procs' = [procs EXCEPT ![p] = [Idle EXCEPT !.pc = "awaitVerify", !.cred = c]]
            /\ last' = NoCall
    /\ batch' = << >>
    /\ UNCHANGED <<now, ticks, session, stored, lastActivity, listeners, users,
                   mint, lazyExpired, vreq, vresp, vprev>>
    /\ UNCHANGED limiterVars
    /\ UNCHANGED entitlementVars
    /\ UNCHANGED providerVars
    /\ UNCHANGED checkoutVars

\* The verification answers (or the function is unreachable): an error ends
\* the sign-in, anything else goes on to createOrUpdateUser.
VerifyResolves(p, reachable) ==
    /\ procs[p].pc = "awaitVerify"
    /\ LET c == procs[p].cred
           resp == IF reachable
                   THEN ServeVerify(Request("POST", TRUE, TRUE, TRUE, Credentials[c]), now)
                   ELSE Response(0, "fetch failed", "Unreachable")
           pr == [procs[p] EXCEPT !.vstatus = resp.status]
       IN IF verificationError(resp)
          THEN /\ procs' = [procs EXCEPT ![p] = Idle]
               /\ last' = SignInReturned("error", "Token verification failed")
          ELSE /\ procs' = [procs EXCEPT ![p] = [pr EXCEPT !.pc = "awaitUpsert"]]
               /\ last' = NoCall
    /\ batch' = << >>
    /\ UNCHANGED <<now, ticks, session, stored, lastActivity, listeners, users,
                   mint, lazyExpired, vreq, vresp, vprev>>
    /\ UNCHANGED limiterVars
    /\ UNCHANGED entitlementVars
    /\ UNCHANGED providerVars
    /\ UNCHANGED checkoutVars

\* The upsert answers an error: createOrUpdateUser returns it, the sign-in fails.
UpsertFails(p) ==
    /\ procs[p].pc = "awaitUpsert"
    /\ procs' = [procs EXCEPT ![p] = Idle]
    /\ last' = SignInReturned("error", "User creation failed")
    /\ batch' = << >>
    /\ UNCHANGED <<now, ticks, session, stored, lastActivity, listeners, users,
                   mint, lazyExpired, vreq, vresp, vprev>>
    /\ UNCHANGED limiterVars
    /\ UNCHANGED entitlementVars
    /\ UNCHANGED providerVars
    /\ UNCHANGED checkoutVars

\* The upsert answers the row: the session is built and setSession assigns it,
\* saves it and notifies; then updateLastActivity.  Either setItem may throw
\* (throws = "session", "activity") into the catch of signInWithGoogle.  A
\* callback that signed out during the notification has cleared the session
\* again before setSession returns.
UpsertResolves(p, throws) ==
    /\ procs[p].pc = "awaitUpsert"
    /\ LET googleUser == decodeGoogleToken(procs[p].cred)
           userData == CustomUser(UpsertRow(users, googleUser), googleUser)
           s == NewSession(userData, now)
           calls == IF throws = "session" THEN << >> ELSE setSession(listeners, s, stored)
           out == SignedOutInside(calls)
       IN /\ users' = Upsert(users, googleUser)
          /\ session' = IF out THEN Null ELSE s
          /\ mint' = IF out THEN NoMint ELSE [live |-> TRUE, uid |-> userData.id, at |-> now]
          /\ lazyExpired' = FALSE
          /\ procs' = [(IF out THEN MarkSignedOut(procs) ELSE procs) EXCEPT ![p] = Idle]
          /\ batch' = calls
          /\ IF throws = "session"
             THEN /\ UNCHANGED <<stored, lastActivity>>
                  /\ last' = SignInReturned("error", "QuotaExceededError")
             ELSE /\ stored' = IF out THEN Absent ELSE saveSessionToStorage(s)
                  /\ IF throws = "activity"
                     THEN /\ UNCHANGED lastActivity
                          /\ last' = SignInReturned("error", "QuotaExceededError")
                     ELSE /\ lastActivity' = toString(now)
                          /\ last' = SignInSucceeded(userData)
    /\ UNCHANGED <<now, ticks, listeners, vreq, vresp, vprev>>
    /\ UNCHANGED limiterVars
    /\ UNCHANGED entitlementVars
    /\ nextPoll' = IF throws = "session" THEN nextPoll ELSE ResetTimer(now)
    /\ UNCHANGED checkoutVars

\* The page is loaded anew after being closed for d: the sign-ins in flight
\* and the listeners are gone with the old process, localStorage and the
\* database stay, the constructor loads the session from what it finds
\* under the key, and the provider mounts and sets its interval.
Reopen(found, d) ==
    /\ d > 0 => ticks < MaxTicks
    /\ now' = now + d
    /\ ticks' = IF d > 0 THEN ticks + 1 ELSE ticks
    /\ LET r == loadSessionFromStorage(FoundValue(found, stored), now + d)
       IN /\ session' = r.session
          /\ stored' = r.stored
    /\ listeners' = << >>
    /\ batch' = << >>
    /\ procs' = [p \in Procs |-> Idle]
    /\ last' = Returned("constructor", found)
    /\ mint' = IF found = "asis" THEN mint ELSE NoMint
    /\ nextPoll' = ResetTimer(now + d)
    /\ rlLast' = NoCheck
    /\ entLast' = NoQuery
    /\ UNCHANGED <<lastActivity, users, lazyExpired, vreq, vresp, vprev>>
    /\ UNCHANGED <<rlStore, rlRun, subscription, hookUser, fetching>>
    /\ UNCHANGED checkoutVars

\* signOut() of the provider: customAuth.signOut(), which clears the session
\* and writes last_activity, then removeItem('last_activity').
providerSignOut(t) ==
    /\ session' = Null
    /\ stored' = saveSessionToStorage(Null)
    /\ batch' = setSession(listeners, Null, stored)
    /\ lastActivity' = Absent
    /\ procs' = MarkSignedOut(procs)
    /\ mint' = NoMint
    /\ nextPoll' = IF session # Null THEN ResetTimer(t) ELSE nextPoll

\* The user signs out through the provider.
ProviderSignOut ==
    /\ nextPoll # NoProvider
    /\ providerSignOut(now)
    /\ last' = Returned("signOut", "void")
    /\ UNCHANGED <<now, ticks, listeners, users, lazyExpired, vreq, vresp, vprev>>
    /\ UNCHANGED limiterVars
    /\ UNCHANGED entitlementVars
    /\ UNCHANGED checkoutVars

\* Time passes until the interval of the provider fires, and checkSession
\* runs: a user whose last activity is more than IDLE_TIMEOUT ago is signed
\* out.
IntervalFires ==
    /\ nextPoll # NoProvider
    /\ nextPoll - ticks * Downtime <= ClockStart + MaxPolls * PollMs
    /\ now' = nextPoll
    /\ IF session # Null
          /\ isSessionExpired(getLastActivity(lastActivity, nextPoll), nextPoll)
       THEN /\ providerSignOut(nextPoll)
            /\ last' = Returned("checkSession", "signOut")
       ELSE /\ nextPoll' = nextPoll + PollMs
            /\ last' = Returned("checkSession", "void")
            /\ batch' = << >>
            /\ UNCHANGED <<session, stored, lastActivity, procs, mint>>
    /\ UNCHANGED <<ticks, listeners, users, lazyExpired, vreq, vresp, vprev>>
    /\ UNCHANGED limiterVars
    /\ UNCHANGED entitlementVars
    /\ UNCHANGED checkoutVars

\* mousedown, mousemove, keypress, scroll or touchstart: updateActivity
\* writes last_activity when there is a user.
Interaction ==
    /\ nextPoll # NoProvider
    /\ lastActivity' = IF session # Null THEN toString(now) ELSE lastActivity
    /\ last' = Returned("updateActivity", "void")
    /\ batch' = << >>
    /\ UNCHANGED <<now, ticks, session, stored, listeners, users, procs, mint,
                   lazyExpired, vreq, vresp, vprev>>
    /\ UNCHANGED limiterVars
    /\ UNCHANGED entitlementVars
    /\ UNCHANGED providerVars
    /\ UNCHANGED checkoutVars

\* ------------------------------------------- verify-google-token, served

\* The requests the function is sent: every method, body and token data.
Requests ==
    { Request(m, j, hc, hu,
              Tok(TRUE, ok, aud, exp, ev, "gA", "a@x", "Ann", csub, cemail)) :
        m \in {"OPTIONS", "POST", "GET"}, j \in BOOLEAN, hc \in BOOLEAN, hu \in BOOLEAN,
        ok \in BOOLEAN, aud \in {expectedAudience, "other-app"},
        exp \in {NowSec(ClockStart) - 1, NowSec(ClockStart), NowSec(ClockStart) + 1},
        ev \in BOOLEAN, csub \in {"gA", "gB"}, cemail \in {"a@x", "b@x"} }

\* The handler answers the request.
Serve ==
    /\ vresp = Null
    /\ vresp' = ServeVerify(vreq, now)
    /\ UNCHANGED <<vreq, vprev>>
    /\ UNCHANGED authVars
    /\ UNCHANGED limiterVars
    /\ UNCHANGED entitlementVars
    /\ UNCHANGED providerVars
    /\ UNCHANGED checkoutVars

\* A second request arrives.
Receive(req) ==
    /\ vresp # Null
    /\ vprev = Null
    /\ vprev' = vresp
    /\ vreq' = req
    /\ vresp' = Null
    /\ UNCHANGED authVars
    /\ UNCHANGED limiterVars
    /\ UNCHANGED entitlementVars
    /\ UNCHANGED providerVars
    /\ UNCHANGED checkoutVars

\* ----------------------------------------------------------- RateLimiter

\* The actions that are rate limited, and the key of each.
Actions == {"auth_attempt", "payment_attempt"}
getKey(action) == <<"rate_limit_", action>>

Limits == 1..MaxLimit

\* const oneHour = 60 * 60 * 1000, also the default of windowMs.
oneHour == 60 * 60 * 1000
\* The windowMs argument of an isAllowed call: left out, a minute, two hours.
Omitted == [given |-> FALSE, ms |-> 0]
WindowArgs == {Omitted, [given |-> TRUE, ms |-> 60 * 1000], [given |-> TRUE, ms |-> 2 * oneHour]}
\* windowMs: number = 60 * 60 * 1000
windowMsOf(w) == IF w.given THEN w.ms ELSE 60 * 60 * 1000
\* The steps of the clock between two checks.
LimiterDeltas == {1, 60 * 1000, oneHour}

\* What localStorage holds under a key: nothing, the JSON text of an entry
\* array, or a text that is not the JSON of one.
NoItem == [kind |-> "absent", text |-> << >>]
Garbage == [kind |-> "garbage", text |-> << >>]

\* JSON.stringify(entries) and JSON.parse of it.
StringifyEntries(entries) ==
    [kind |-> "json",
     text |-> [i \in 1..Len(entries) |-> <<entries[i].timestamp, entries[i].count>>]]
ParseEntries(item) ==
    [i \in 1..Len(item.text) |-> [timestamp |-> item.text[i][1], count |-> item.text[i][2]]]

\* cleanupExpiredEntries: entries.filter(entry => now - entry.timestamp < oneHour)
cleanupExpiredEntries(entries, t) ==
    SelectSeq(entries, LAMBDA entry : t - entry.timestamp < oneHour)

\* entries.reduce((sum, entry) => sum + entry.count, 0)
RECURSIVE totalCount(_)
totalCount(entries) ==
    IF entries = << >> THEN 0 ELSE Head(entries).count + totalCount(Tail(entries))

\* Faulty variant: an attempt is recorded with count 2.
NewEntryCountsTwice(t) == [timestamp |-> t, count |-> 2]
\* entries.push({ timestamp: now, count: 1 })
NewEntry(t) == [timestamp |-> t, count |-> 1]

\* Faulty variant: the check rejects only above the limit.
OverLimit(total, limit) == total > limit
\* if (totalCount >= limit) return false
AtLimit(total, limit) == total >= limit

\* Faulty variant: the limiter fails closed.
isAllowedCatchFailsClosed(error) == FALSE
\* catch (error) { ...; return true; } of isAllowed
isAllowedCatch(error) == TRUE

\* Faulty variant: the remaining attempts are not clamped at zero.
RemainingUnclamped(limit, total) == limit - total
\* Math.max(0, limit - totalCount)
Remaining(limit, total) == IF limit - total > 0 THEN limit - total ELSE 0

\* catch (error) { ...; return limit; } of getRemainingAttempts
getRemainingAttemptsCatch(error, limit) == limit

\* isAllowed(action, limit, windowMs): the result and the item left under the
\* key.  fault names the storage call that throws in this call, if one does:
\* getItem ("read") or setItem ("write"); JSON.parse throws on garbage.
isAllowed(item, limit, windowMs, t, fault) ==
    IF fault = "read"
    THEN [allowed |-> isAllowedCatch("SecurityError"), item |-> item, failed |-> TRUE]
    ELSE IF item = Garbage
    THEN [allowed |-> isAllowedCatch("SyntaxError"), item |-> item, failed |-> TRUE]
    ELSE LET entries == cleanupExpiredEntries(
                            IF item = NoItem THEN << >> ELSE ParseEntries(item), t)
         IN IF AtLimit(totalCount(entries), limit)
            THEN [allowed |-> FALSE, item |-> item, failed |-> FALSE]
            ELSE IF fault = "write"
            THEN [allowed |-> isAllowedCatch("QuotaExceededError"), item |-> item,
                  failed |-> TRUE]
            ELSE [allowed |-> TRUE,
                  item |-> StringifyEntries(Append(entries, NewEntry(t))),
                  failed |-> FALSE]

\* getRemainingAttempts(action, limit): the number returned; nothing is written.
getRemainingAttempts(item, limit, t, fault) ==
    IF fault = "read"
    THEN [remaining |-> getRemainingAttemptsCatch("SecurityError", limit), failed |-> TRUE]
    ELSE IF item = NoItem THEN [remaining |-> limit, failed |-> FALSE]
    ELSE IF item = Garbage
    THEN [remaining |-> getRemainingAttemptsCatch("SyntaxError", limit), failed |-> TRUE]
    ELSE [remaining |-> Remaining(limit, totalCount(cleanupExpiredEntries(ParseEntries(item), t))),
          failed |-> FALSE]

\* The calls made for an action since its key was empty, while they follow
\* the pattern: up to limit + 1 calls with one limit and one windowMs inside
\* the window that the first opens, then one call made when the window has
\* elapsed since the last of them (history; n = 0: no such calls).
NoRun == [n |-> 0, limit |-> 0, windowMs |-> 0, first |-> 0, lastAt |-> 0]

NextRun(r, item, limit, windowMs, t, failed) ==
    IF failed THEN NoRun
    ELSE IF item = NoItem
    THEN [n |-> 1, limit |-> limit, windowMs |-> windowMs, first |-> t, lastAt |-> t]
    ELSE IF r.n = 0 \/ r.limit # limit \/ r.windowMs # windowMs THEN NoRun
    ELSE IF r.n <= limit /\ t - r.first < windowMs
    THEN [r EXCEPT !.n = r.n + 1, !.lastAt = t]
    ELSE IF r.n = limit + 1 /\ t - r.lastAt >= windowMs
    THEN [r EXCEPT !.n = r.n + 1, !.lastAt = t]
    ELSE NoRun

\* rateLimiter.isAllowed(action, limit, windowMs)
IsAllowed(action, limit, w, fault) ==
    LET item == rlStore[getKey(action)]
        res == isAllowed(item, limit, windowMsOf(w), now, fault)
    IN /\ rlStore' = [rlStore EXCEPT ![getKey(action)] = res.item]
       /\ rlLast' = [op |-> "isAllowed", action |-> action, limit |-> limit,
                     windowMs |-> windowMsOf(w), allowed |-> res.allowed,
                     remaining |-> 0, failed |-> res.failed]
       /\ rlRun' = [rlRun EXCEPT ![action] =
                        NextRun(@, item, limit, windowMsOf(w), now, res.failed)]
       /\ UNCHANGED authVars
       /\ UNCHANGED verifierVars
       /\ UNCHANGED entitlementVars
       /\ UNCHANGED providerVars
       /\ UNCHANGED checkoutVars

\* rateLimiter.getRemainingAttempts(action, limit)
GetRemainingAttempts(action, limit, fault) ==
    LET res == getRemainingAttempts(rlStore[getKey(action)], limit, now, fault)
    IN /\ rlLast' = [op |-> "getRemainingAttempts", action |-> action, limit |-> limit,
                     windowMs |-> oneHour, allowed |-> FALSE,
                     remaining |-> res.remaining, failed |-> res.failed]
       /\ UNCHANGED <<rlStore, rlRun>>
       /\ UNCHANGED authVars
       /\ UNCHANGED verifierVars
       /\ UNCHANGED entitlementVars
       /\ UNCHANGED providerVars
       /\ UNCHANGED checkoutVars

\* Something else overwrites the item of an action with a text that is not
\* the JSON of an entry array.
CorruptItem(action) ==
    /\ rlStore[getKey(action)] # Garbage
    /\ rlStore' = [rlStore EXCEPT ![getKey(action)] = Garbage]
    /\ rlRun' = [rlRun EXCEPT ![action] = NoRun]
    /\ rlLast' = NoCheck
    /\ UNCHANGED authVars
    /\ UNCHANGED verifierVars
    /\ UNCHANGED entitlementVars
    /\ UNCHANGED providerVars
    /\ UNCHANGED checkoutVars

\* ------------------------------------------------- throttled call sites

\* SecurityConfig.RATE_LIMITS
AUTH_ATTEMPTS_PER_HOUR == 5
PAYMENT_ATTEMPTS_PER_HOUR == 3

\* rateLimiter.isAllowed(action, limit) as a call site makes it, with no
\* windowMs and storage that works: the limiter's state after the call.
rateLimited(action, limit) ==
    LET item == rlStore[getKey(action)]
        res == isAllowed(item, limit, windowMsOf(Omitted), now, "none")
    IN /\ rlStore' = [rlStore EXCEPT ![getKey(action)] = res.item]
       /\ rlLast' = [op |-> "isAllowed", action |-> action, limit |-> limit,
                     windowMs |-> windowMsOf(Omitted), allowed |-> res.allowed,
                     remaining |-> 0, failed |-> res.failed]
       /\ rlRun' = [rlRun EXCEPT ![action] =
                        NextRun(@, item, limit, windowMsOf(Omitted), now, res.failed)]

\* useSecureAuth().secureSignIn(email, password), to its await: refused by
\* the rate limiter with 'Rate limit exceeded', or auth.signIn is invoked.
SecureSignIn ==
    /\ rateLimited("auth_attempt", AUTH_ATTEMPTS_PER_HOUR)
    /\ last' = Returned("secureSignIn",
                        IF rlLast'.allowed THEN "auth.signIn" ELSE "Rate limit exceeded")
    /\ batch' = << >>
    /\ UNCHANGED <<now, ticks, session, stored, lastActivity, listeners, users,
                   procs, mint, lazyExpired>>
    /\ UNCHANGED verifierVars
    /\ UNCHANGED entitlementVars
    /\ UNCHANGED providerVars
    /\ UNCHANGED checkoutVars

\* Faulty variant: sign-ups are counted under a key of their own.
SignUpActionOfItsOwn == "payment_attempt"

\* The action name secureSignUp passes to the rate limiter.
SignUpAction == "auth_attempt"

\* useSecureAuth().secureSignUp(email, password), to its await: refused by
\* the rate limiter with 'Rate limit exceeded', or auth.signUp is invoked.
SecureSignUp ==
    /\ rateLimited(SignUpAction, AUTH_ATTEMPTS_PER_HOUR)
    /\ last' = Returned("secureSignUp",
                        IF rlLast'.allowed THEN "auth.signUp" ELSE "Rate limit exceeded")
    /\ batch' = << >>
    /\ UNCHANGED <<now, ticks, session, stored, lastActivity, listeners, users,
                   procs, mint, lazyExpired>>
    /\ UNCHANGED verifierVars
    /\ UNCHANGED entitlementVars
    /\ UNCHANGED providerVars
    /\ UNCHANGED checkoutVars

\* SecurePaymentForm.handlePayment(), to its await: refused by the rate
\* limiter, or createCheckoutSession is invoked.
HandlePayment ==
    /\ rateLimited("payment_attempt", PAYMENT_ATTEMPTS_PER_HOUR)
    /\ last' = Returned("handlePayment",
                        IF rlLast'.allowed THEN "createCheckoutSession" ELSE "refused")
    /\ batch' = << >>
    /\ UNCHANGED <<now, ticks, session, stored, lastActivity, listeners, users,
                   procs, mint, lazyExpired>>
    /\ UNCHANGED verifierVars
    /\ UNCHANGED entitlementVars
    /\ UNCHANGED providerVars
    /\ UNCHANGED checkoutVars

\* ---------------------------------------------------------- entitlements

\* A string is the sequence of its characters, so that toLowerCase and
\* includes are computed as String.prototype computes them.
UpperCase == <<"A", "B", "C", "D", "E", "F", "G", "H", "I", "J", "K", "L", "M", "N", "O", "P", "Q", "R", "S", "T", "U", "V", "W", "X", "Y", "Z">>
LowerCase == <<"a", "b", "c", "d", "e", "f", "g", "h", "i", "j", "k", "l", "m", "n", "o", "p", "q", "r", "s", "t", "u", "v", "w", "x", "y", "z">>

\* f.toLowerCase()
toLowerCase(str) ==
    [i \in 1..Len(str) |->
        IF \E k \in 1..Len(UpperCase) : UpperCase[k] = str[i]
        THEN LowerCase[CHOOSE k \in 1..Len(UpperCase) : UpperCase[k] = str[i]]
        ELSE str[i]]

\* hay.includes(needle): needle occurs in hay as a contiguous run.
includes(hay, needle) ==
    \E i \in 0..(Len(hay) - Len(needle)) :
        SubSeq(hay, i + 1, i + Len(needle)) = needle

\* '5 invoices per month'
freeFeature1 ==
    <<"5", " ", "i", "n", "v", "o", "i", "c", "e", "s", " ", "p", "e", "r", " ", "m", "o", "n", "t", "h">>
\* 'Basic templates'
freeFeature2 ==
    <<"B", "a", "s", "i", "c", " ", "t", "e", "m", "p", "l", "a", "t", "e", "s">>
\* 'Email support'
freeFeature3 ==
    <<"E", "m", "a", "i", "l", " ", "s", "u", "p", "p", "o", "r", "t">>
\* 'Basic client management'
freeFeature4 ==
    <<"B", "a", "s", "i", "c", " ", "c", "l", "i", "e", "n", "t", " ", "m", "a", "n", "a", "g", "e", "m", "e", "n", "t">>
\* 'Unlimited invoices'
proFeature1 ==
    <<"U", "n", "l", "i", "m", "i", "t", "e", "d", " ", "i", "n", "v", "o", "i", "c", "e", "s">>
\* 'Custom templates'
proFeature2 ==
    <<"C", "u", "s", "t", "o", "m", " ", "t", "e", "m", "p", "l", "a", "t", "e", "s">>
\* 'Priority support'
proFeature3 ==
    <<"P", "r", "i", "o", "r", "i", "t", "y", " ", "s", "u", "p", "p", "o", "r", "t">>
\* 'Advanced reporting'
proFeature4 ==
    <<"A", "d", "v", "a", "n", "c", "e", "d", " ", "r", "e", "p", "o", "r", "t", "i", "n", "g">>
\* 'Client portal'
proFeature5 ==
    <<"C", "l", "i", "e", "n", "t", " ", "p", "o", "r", "t", "a", "l">>
\* 'Payment tracking'
proFeature6 ==
    <<"P", "a", "y", "m", "e", "n", "t", " ", "t", "r", "a", "c", "k", "i", "n", "g">>
\* 'Everything in Pro'
businessFeature1 ==
    <<"E", "v", "e", "r", "y", "t", "h", "i", "n", "g", " ", "i", "n", " ", "P", "r", "o">>
\* 'Multi-user accounts'
businessFeature2 ==
    <<"M", "u", "l", "t", "i", "-", "u", "s", "e", "r", " ", "a", "c", "c", "o", "u", "n", "t", "s">>
\* 'API access'
businessFeature3 ==
    <<"A", "P", "I", " ", "a", "c", "c", "e", "s", "s">>
\* 'Custom integrations'
businessFeature4 ==
    <<"C", "u", "s", "t", "o", "m", " ", "i", "n", "t", "e", "g", "r", "a", "t", "i", "o", "n", "s">>
\* 'Dedicated support'
businessFeature5 ==
    <<"D", "e", "d", "i", "c", "a", "t", "e", "d", " ", "s", "u", "p", "p", "o", "r", "t">>
\* 'White-label options'
businessFeature6 ==
    <<"W", "h", "i", "t", "e", "-", "l", "a", "b", "e", "l", " ", "o", "p", "t", "i", "o", "n", "s">>

\* PLANS: the name, the features and the limits of each tier; -1 stands for
\* unlimited.
PLANS ==
    [free |-> [name |-> "Free",
          features |-> <<freeFeature1, freeFeature2, freeFeature3, freeFeature4>>,
          limits |-> [invoices |-> 5, clients |-> 10]],
     pro |-> [name |-> "Pro",
          features |-> <<proFeature1, proFeature2, proFeature3, proFeature4, proFeature5, proFeature6>>,
          limits |-> [invoices |-> -1, clients |-> -1]],
     business |-> [name |-> "Business",
          features |-> <<businessFeature1, businessFeature2, businessFeature3, businessFeature4, businessFeature5, businessFeature6>>,
          limits |-> [invoices |-> -1, clients |-> -1]]]

PlanType == DOMAIN PLANS

\* The row of subscribers that a fetch finds for the user, or none (null);
\* the tier column may be null ("").
SubscriberRows ==
    {Null} \cup {[kind |-> "subscriber", subscribed |-> b, subscription_tier |-> t] :
                    b \in BOOLEAN, t \in PlanType \cup {""}}

\* The numbers of existing invoices or clients a component asks about.
Counts == 0..MaxCount \cup {999999}

\* What fetchSubscription stores for the row it read.
MirrorOf(data) ==
    IF data # Null
    THEN [data EXCEPT !.subscription_tier = IF @ # "" THEN @ ELSE "free"]
    ELSE [kind |-> "subscriber", subscribed |-> FALSE, subscription_tier |-> "free"]

\* getTier(): (subscription?.subscription_tier as PlanType) || 'free'
getTier(sub) ==
    IF sub # Null /\ sub.subscription_tier # "" THEN sub.subscription_tier ELSE "free"

\* Faulty variant: a count equal to the limit is still allowed.
canCreateInvoiceInclusive(sub, currentCount) ==
    LET limit == PLANS[getTier(sub)].limits.invoices
    IN limit = -1 \/ currentCount <= limit

\* canCreateInvoice(currentCount)
canCreateInvoice(sub, currentCount) ==
    LET limit == PLANS[getTier(sub)].limits.invoices
    IN limit = -1 \/ currentCount < limit

\* canCreateClient(currentCount)
canCreateClient(sub, currentCount) ==
    LET limit == PLANS[getTier(sub)].limits.clients
    IN limit = -1 \/ currentCount < limit

\* hasFeature(feature)
hasFeature(sub, feature) ==
    LET plan == PLANS[getTier(sub)]
    IN \E i \in 1..Len(plan.features) :
          includes(toLowerCase(plan.features[i]), toLowerCase(feature))

\* useFeatureAccess().checkAccess(requiredTier, feature); an empty feature
\* is falsy, like an omitted one.
checkAccess(sub, requiredTier, feature) ==
    LET currentTier == getTier(sub)
    IN IF currentTier = "business" THEN TRUE
       ELSE IF currentTier = "pro" /\ requiredTier # "business" THEN TRUE
       ELSE IF currentTier = "free" /\ requiredTier = "free" THEN TRUE
       ELSE IF feature # << >> THEN hasFeature(sub, feature)
       ELSE FALSE

\* FeatureGate: hasAccess, on which the children are rendered.
hasAccess(sub, requiredTier, feature) ==
    LET currentTier == getTier(sub)
    IN \/ hasFeature(sub, feature)
       \/ currentTier = requiredTier
       \/ (requiredTier = "pro" /\ currentTier = "business")

\* The feature strings components ask about: the features of the plans, a
\* word shared by several of them, one in capitals, the empty string and a
\* string no plan has.
PlanFeatures ==
    UNION {{PLANS[t].features[i] : i \in 1..Len(PLANS[t].features)} : t \in PlanType}

FeatureQueries ==
    PlanFeatures \cup
    {<<"s", "u", "p", "p", "o", "r", "t">>,
     <<"T", "E", "M", "P", "L", "A", "T", "E", "S">>,
     << >>,
     <<"T", "e", "a", "m", " ", "b", "i", "l", "l", "i", "n", "g">>}

\* The users useCustomAuth() hands to the hook, and the row of subscribers
\* each of them has.
HookUserIds == {"uA", "uB"}
HookUser(id) == [kind |-> "user", id |-> id]
HookUsers == {Null} \cup {HookUser(id) : id \in HookUserIds}

SubscriberOf ==
    [uA |-> [kind |-> "subscriber", subscribed |-> TRUE, subscription_tier |-> "pro"],
     uB |-> Null]

\* The effect on [user]: a user starts fetchSubscription, which suspends at
\* its query; no user stores the free default.
EffectRuns(u) ==
    /\ hookUser' = u
    /\ IF u # Null
       THEN /\ fetching' = fetching \cup {u.id}
            /\ UNCHANGED subscription
       ELSE /\ subscription' = MirrorOf(Null)
            /\ UNCHANGED fetching
    /\ entLast' = NoQuery
    /\ UNCHANGED authVars
    /\ UNCHANGED verifierVars
    /\ UNCHANGED limiterVars
    /\ UNCHANGED providerVars
    /\ UNCHANGED checkoutVars

\* The query of fetchSubscription resolves with the row of the user it was
\* started for, or without one, and the row is stored.
FetchSubscriptionResolves(id, data) ==
    /\ id \in fetching
    /\ fetching' = fetching \ {id}
    /\ subscription' = MirrorOf(data)
    /\ entLast' = NoQuery
    /\ UNCHANGED hookUser
    /\ UNCHANGED authVars
    /\ UNCHANGED verifierVars
    /\ UNCHANGED limiterVars
    /\ UNCHANGED providerVars
    /\ UNCHANGED checkoutVars

\* The query fails: the catch block toasts and stores nothing.
FetchSubscriptionFails(id) ==
    /\ id \in fetching
    /\ fetching' = fetching \ {id}
    /\ entLast' = NoQuery
    /\ UNCHANGED <<subscription, hookUser>>
    /\ UNCHANGED authVars
    /\ UNCHANGED verifierVars
    /\ UNCHANGED limiterVars
    /\ UNCHANGED providerVars
    /\ UNCHANGED checkoutVars

Query(op, n, requiredTier, feature, ret) ==
    [op |-> op, count |-> n, required |-> requiredTier, feature |-> feature,
     ret |-> ret]

\* A component asks canCreateInvoice(n).
CanCreateInvoice(n) ==
    /\ entLast' = Query("canCreateInvoice", n, "", << >>,
                        canCreateInvoice(subscription, n))
    /\ UNCHANGED <<subscription, hookUser, fetching>>
    /\ UNCHANGED authVars
    /\ UNCHANGED verifierVars
    /\ UNCHANGED limiterVars
    /\ UNCHANGED providerVars
    /\ UNCHANGED checkoutVars

\* A component asks canCreateClient(n).
CanCreateClient(n) ==
    /\ entLast' = Query("canCreateClient", n, "", << >>,
                        canCreateClient(subscription, n))
    /\ UNCHANGED <<subscription, hookUser, fetching>>
    /\ UNCHANGED authVars
    /\ UNCHANGED verifierVars
    /\ UNCHANGED limiterVars
    /\ UNCHANGED providerVars
    /\ UNCHANGED checkoutVars

\* A component asks hasFeature(feature).
HasFeature(feature) ==
    /\ entLast' = Query("hasFeature", 0, "", feature,
                        hasFeature(subscription, feature))
    /\ UNCHANGED <<subscription, hookUser, fetching>>
    /\ UNCHANGED authVars
    /\ UNCHANGED verifierVars
    /\ UNCHANGED limiterVars
    /\ UNCHANGED providerVars
    /\ UNCHANGED checkoutVars

\* A component asks checkAccess(requiredTier, feature).
CheckAccess(requiredTier, feature) ==
    /\ entLast' = Query("checkAccess", 0, requiredTier, feature,
                        checkAccess(subscription, requiredTier, feature))
    /\ UNCHANGED <<subscription, hookUser, fetching>>
    /\ UNCHANGED authVars
    /\ UNCHANGED verifierVars
    /\ UNCHANGED limiterVars
    /\ UNCHANGED providerVars
    /\ UNCHANGED checkoutVars

\* A FeatureGate for requiredTier and feature renders: ret is whether it
\* renders its children.
RenderFeatureGate(requiredTier, feature) ==
    /\ entLast' = Query("FeatureGate", 0, requiredTier, feature,
                        hasAccess(subscription, requiredTier, feature))
    /\ UNCHANGED <<subscription, hookUser, fetching>>
    /\ UNCHANGED authVars
    /\ UNCHANGED verifierVars
    /\ UNCHANGED limiterVars
    /\ UNCHANGED providerVars
    /\ UNCHANGED checkoutVars

\* ------------------------------------------ checkout functions (server)

\* The users supabase.auth.getUser knows, by id; '' stands for no user.
CheckoutUsers == {"uA", "uB"}
Slots == 1..MaxRequests

\* checkRateLimit(user.id, 5, 300000)
CHECKOUT_LIMIT == 5
CHECKOUT_WINDOW_MS == 300000
ServerDeltas == {1, CHECKOUT_WINDOW_MS}

\* rateLimits.get(identifier) of an identifier the map does not hold.
NoLimit == [count |-> 0, resetTime |-> 0]

\* Faulty variant: the window refuses only above the limit.
RateLimitExceeded(count, limit) == count > limit
\* if (userLimit.count >= limit) return false
RateLimitReached(count, limit) == count >= limit

\* checkRateLimit(identifier, limit, windowMs): the result, and the map after.
checkRateLimit(limits, identifier, limit, windowMs, t) ==
    LET userLimit == limits[identifier]
    IN IF userLimit = NoLimit \/ t > userLimit.resetTime
       THEN [ok |-> TRUE,
             limits |-> [limits EXCEPT ![identifier] =
                            [count |-> 1, resetTime |-> t + windowMs]]]
       ELSE IF RateLimitReached(userLimit.count, limit)
       THEN [ok |-> FALSE, limits |-> limits]
       ELSE [ok |-> TRUE,
             limits |-> [limits EXCEPT ![identifier].count = userLimit.count + 1]]

\* A request slot that serves nothing, and the response to the request of a
\* slot.
FreeSlot == [pc |-> "free", fn |-> "", user |-> "", customer |-> NoCustomer]

Answer(slot, status, error) ==
    [fn |-> slot.fn, status |-> status, error |-> error, user |-> slot.user,
     customer |-> slot.customer]

\* The id the payment provider gives a customer it creates: a fresh one.
NewCustomerId(cs) == <<"cus", Cardinality(cs) + 1>>

\* A request ends with a response; nothing else changes.
Responds(r, slot, status, error) ==
    /\ checkouts' = [checkouts EXCEPT ![r] = FreeSlot]
    /\ response' = Answer(slot, status, error)

\* A request goes on to its next await.
GoesOn(r, slot) ==
    /\ checkouts' = [checkouts EXCEPT ![r] = slot]
    /\ response' = NoResponse

\* create-checkout-session receives a request: the method and the
\* Authorization header are checked, then auth.getUser(token) is awaited.
CheckoutReceives(r, method, header) ==
    /\ checkouts[r].pc = "free"
    /\ LET slot == [FreeSlot EXCEPT !.fn = "create-checkout-session"]
       IN IF method = "OPTIONS" THEN Responds(r, slot, 200, "ok")
          ELSE IF method # "POST" THEN Responds(r, slot, 405, "Method not allowed")
          ELSE IF header # "Bearer"
          THEN Responds(r, slot, 401, "Invalid authorization header")
          ELSE GoesOn(r, [slot EXCEPT !.pc = "getUser"])
    /\ UNCHANGED <<rateLimits, subscribers, customers>>
    /\ UNCHANGED authVars
    /\ UNCHANGED verifierVars
    /\ UNCHANGED limiterVars
    /\ UNCHANGED entitlementVars
    /\ UNCHANGED providerVars

\* auth.getUser answers the user of the token, or none: without a user the
\* request is answered 401; with one, checkRateLimit decides between 429 and
\* going on to req.json().
GetUserResolves(r, user) ==
    /\ checkouts[r].pc = "getUser"
    /\ IF user = ""
       THEN /\ Responds(r, checkouts[r], 401, "Authentication failed")
            /\ UNCHANGED rateLimits
       ELSE LET res == checkRateLimit(rateLimits, user, CHECKOUT_LIMIT,
                                      CHECKOUT_WINDOW_MS, now)
                slot == [checkouts[r] EXCEPT !.user = user]
            IN /\ rateLimits' = res.limits
               /\ IF res.ok
                  THEN GoesOn(r, [slot EXCEPT !.pc = "json"])
                  ELSE Responds(r, slot, 429, "Rate limit exceeded")
    /\ UNCHANGED <<subscribers, customers>>
    /\ UNCHANGED authVars
    /\ UNCHANGED verifierVars
    /\ UNCHANGED limiterVars
    /\ UNCHANGED entitlementVars
    /\ UNCHANGED providerVars

\* The bodies a request may carry.
Bodies == {"notJson", "badPrice", "badUrl", "ok"}

\* req.json() of create-checkout-session answers: the body is validated
\* (with STRIPE_SECRET_KEY configured), then the subscriber row is selected.
BodyParsed(r, body) ==
    /\ checkouts[r].pc = "json"
    /\ checkouts[r].fn = "create-checkout-session"
    /\ IF body = "notJson" THEN Responds(r, checkouts[r], 400, "Invalid JSON body")
       ELSE IF body = "badPrice" THEN Responds(r, checkouts[r], 400, "Invalid price ID")
       ELSE IF body = "badUrl"
       THEN Responds(r, checkouts[r], 400, "Invalid URLs provided")
       ELSE GoesOn(r, [checkouts[r] EXCEPT !.pc = "select"])
    /\ UNCHANGED <<rateLimits, subscribers, customers>>
    /\ UNCHANGED authVars
    /\ UNCHANGED verifierVars
    /\ UNCHANGED limiterVars
    /\ UNCHANGED entitlementVars
    /\ UNCHANGED providerVars

\* create-checkout-session-custom receives a request: the method is checked,
\* then req.json() is awaited.
CustomReceives(r, method) ==
    /\ checkouts[r].pc = "free"
    /\ LET slot == [FreeSlot EXCEPT !.fn = "create-checkout-session-custom"]
       IN IF method = "OPTIONS" THEN Responds(r, slot, 200, "ok")
          ELSE IF method # "POST" THEN Responds(r, slot, 405, "Method not allowed")
          ELSE GoesOn(r, [slot EXCEPT !.pc = "json"])
    /\ UNCHANGED <<rateLimits, subscribers, customers>>
    /\ UNCHANGED authVars
    /\ UNCHANGED verifierVars
    /\ UNCHANGED limiterVars
    /\ UNCHANGED entitlementVars
    /\ UNCHANGED providerVars

\* The bodies create-checkout-session-custom may get: userId is '' when a
\* required field is missing.
CustomBodies == {"notJson", "ok"}

\* req.json() of create-checkout-session-custom answers: a rejection is
\* caught and answered 500, missing fields are answered 400, and the
\* subscriber row of the userId of the body is selected.
CustomBodyParsed(r, body, userId) ==
    /\ checkouts[r].pc = "json"
    /\ checkouts[r].fn = "create-checkout-session-custom"
    /\ IF body = "notJson"
       THEN Responds(r, checkouts[r], 500, "Unable to create checkout session")
       ELSE IF userId = ""
       THEN Responds(r, checkouts[r], 400, "Missing required fields")
       ELSE GoesOn(r, [checkouts[r] EXCEPT !.pc = "select", !.user = userId])
    /\ UNCHANGED <<rateLimits, subscribers, customers>>
    /\ UNCHANGED authVars
    /\ UNCHANGED verifierVars
    /\ UNCHANGED limiterVars
    /\ UNCHANGED entitlementVars
    /\ UNCHANGED providerVars

\* The select of the subscriber row answers: with a stripe_customer_id the
\* customer is retrieved, without one a customer is created.
SelectResolves(r) ==
    /\ checkouts[r].pc = "select"
    /\ LET stripe_customer_id == subscribers[checkouts[r].user]
       IN IF stripe_customer_id # NoCustomer
          THEN GoesOn(r, [checkouts[r] EXCEPT !.pc = "retrieve",
                                              !.customer = stripe_customer_id])
          ELSE GoesOn(r, [checkouts[r] EXCEPT !.pc = "create"])
    /\ UNCHANGED <<rateLimits, subscribers, customers>>
    /\ UNCHANGED authVars
    /\ UNCHANGED verifierVars
    /\ UNCHANGED limiterVars
    /\ UNCHANGED entitlementVars
    /\ UNCHANGED providerVars

\* stripe.customers.retrieve answers: the checkout session is created next.
RetrieveResolves(r) ==
    /\ checkouts[r].pc = "retrieve"
    /\ GoesOn(r, [checkouts[r] EXCEPT !.pc = "session"])
    /\ UNCHANGED <<rateLimits, subscribers, customers>>
    /\ UNCHANGED authVars
    /\ UNCHANGED verifierVars
    /\ UNCHANGED limiterVars
    /\ UNCHANGED entitlementVars
    /\ UNCHANGED providerVars

\* stripe.customers.create answers the customer it created for the user: the
\* subscriber row is upserted next.
CreateResolves(r) ==
    /\ checkouts[r].pc = "create"
    /\ customers' = customers \cup {[id |-> NewCustomerId(customers),
                                      user_id |-> checkouts[r].user]}
    /\ GoesOn(r, [checkouts[r] EXCEPT !.pc = "upsert",
                                      !.customer = NewCustomerId(customers)])
    /\ UNCHANGED <<rateLimits, subscribers>>
    /\ UNCHANGED authVars
    /\ UNCHANGED verifierVars
    /\ UNCHANGED limiterVars
    /\ UNCHANGED entitlementVars
    /\ UNCHANGED providerVars

\* The upsert of the subscriber row answers: the row of the user holds the
\* id of the customer this request created.
UpsertSubscriberResolves(r) ==
    /\ checkouts[r].pc = "upsert"
    /\ subscribers' = [subscribers EXCEPT ![checkouts[r].user] = checkouts[r].customer]
    /\ GoesOn(r, [checkouts[r] EXCEPT !.pc = "session"])
    /\ UNCHANGED <<rateLimits, customers>>
    /\ UNCHANGED authVars
    /\ UNCHANGED verifierVars
    /\ UNCHANGED limiterVars
    /\ UNCHANGED entitlementVars
    /\ UNCHANGED providerVars

\* stripe.checkout.sessions.create answers: the URL of the session for the
\* customer is the response.
SessionResolves(r) ==
    /\ checkouts[r].pc = "session"
    /\ Responds(r, checkouts[r], 200, "")
    /\ UNCHANGED <<rateLimits, subscribers, customers>>
    /\ UNCHANGED authVars
    /\ UNCHANGED verifierVars
    /\ UNCHANGED limiterVars
    /\ UNCHANGED entitlementVars
    /\ UNCHANGED providerVars

\* ------------------------------------------------------- specifications

NoRequest == Request("POST", TRUE, TRUE, TRUE, Credentials["A"])

InitAuth ==
    /\ now = ClockStart
    /\ ticks = 0
    /\ session = Null
    /\ stored = Absent
    /\ lastActivity = Absent
    /\ listeners = << >>
    /\ batch = << >>
    /\ users = {}
    /\ procs = [p \in Procs |-> Idle]
    /\ last = NoCall
    /\ mint = NoMint
    /\ lazyExpired = FALSE

InitLimiter ==
    /\ rlStore = [k \in {getKey(a) : a \in Actions} |-> NoItem]
    /\ rlLast = NoCheck
    /\ rlRun = [a \in Actions |-> NoRun]

\* useState<Subscription | null>(null)
InitEntitlement ==
    /\ subscription = Null
    /\ entLast = NoQuery
    /\ hookUser = Null
    /\ fetching = {}

\* A new instance of create-checkout-session, a subscribers table without
\* customer ids, and a payment provider without customers.
InitCheckout ==
    /\ rateLimits = [u \in CheckoutUsers |-> NoLimit]
    /\ subscribers = [u \in CheckoutUsers |-> NoCustomer]
    /\ customers = {}
    /\ checkouts = [r \in Slots |-> FreeSlot]
    /\ response = NoResponse

Init ==
    /\ InitAuth
    /\ InitLimiter
    /\ InitEntitlement
    /\ InitCheckout
    /\ nextPoll = NoProvider
    /\ vreq = NoRequest
    /\ vresp = Null
    /\ vprev = Null

\* The session core with no subscriber: two users and a forged and an
\* undecodable credential, the clock, and setItem failing at will.
Next ==
    \/ \E d \in Deltas : Tick(d)
    \/ \E a \in BOOLEAN : SignOut(a)
    \/ \E a \in BOOLEAN : IsAuthenticated(a)
    \/ \E p \in Procs, c \in CoreCreds : SignInStart(p, c)
    \/ \E p \in Procs, r \in BOOLEAN : VerifyResolves(p, r)
    \/ \E p \in Procs : UpsertFails(p)
    \/ \E p \in Procs, t \in {"none", "session", "activity"} : UpsertResolves(p, t)

Spec == Init /\ [][Next]_vars

\* The same with storage that never fails.
NextReliable ==
    \/ \E d \in Deltas : Tick(d)
    \/ SignOut(FALSE)
    \/ IsAuthenticated(FALSE)
    \/ \E p \in Procs, c \in CoreCreds : SignInStart(p, c)
    \/ \E p \in Procs, r \in BOOLEAN : VerifyResolves(p, r)
    \/ \E p \in Procs : UpsertFails(p)
    \/ \E p \in Procs : UpsertResolves(p, "none")

SpecReliable == Init /\ [][NextReliable]_vars

\* The session core with subscribers, one user signing in.
NextListeners ==
    \/ \E d \in Deltas : Tick(d)
    \/ \E a \in BOOLEAN : SignOut(a)
    \/ \E a \in BOOLEAN : IsAuthenticated(a)
    \/ \E cb \in Callbacks : OnAuthStateChange(cb)
    \/ \E p \in Procs : SignInStart(p, "A")
    \/ \E p \in Procs, r \in BOOLEAN : VerifyResolves(p, r)
    \/ \E p \in Procs : UpsertFails(p)
    \/ \E p \in Procs, t \in {"none", "session", "activity"} : UpsertResolves(p, t)

SpecListeners == Init /\ [][NextListeners]_vars

\* The session core with subscribers that call back into the service.
NextReentrant ==
    \/ \E d \in Deltas : Tick(d)
    \/ SignOut(FALSE)
    \/ IsAuthenticated(FALSE)
    \/ \E cb \in ReentrantCallbacks : OnAuthStateChange(cb)
    \/ \E p \in Procs : SignInStart(p, "A")
    \/ \E p \in Procs : VerifyResolves(p, TRUE)
    \/ \E p \in Procs : UpsertFails(p)
    \/ \E p \in Procs : UpsertResolves(p, "none")

SpecReentrant == Init /\ [][NextReentrant]_vars

\* Sign-ins with every credential, against the verifier and the user store.
NextSignIn ==
    \/ \E a \in BOOLEAN : SignOut(a)
    \/ \E p \in Procs, c \in CredNames : SignInStart(p, c)
    \/ \E p \in Procs, r \in BOOLEAN : VerifyResolves(p, r)
    \/ \E p \in Procs : UpsertFails(p)
    \/ \E p \in Procs, t \in {"none", "session", "activity"} : UpsertResolves(p, t)

SpecSignIn == Init /\ [][NextSignIn]_vars

\* The verify-google-token function alone, serving two requests in a row.
InitVerifier ==
    /\ InitAuth
    /\ InitLimiter
    /\ InitEntitlement
    /\ InitCheckout
    /\ nextPoll = NoProvider
    /\ vreq \in Requests
    /\ vresp = Null
    /\ vprev = Null

NextVerifier ==
    \/ Serve
    \/ \E req \in Requests : Receive(req)

SpecVerifier == InitVerifier /\ [][NextVerifier]_vars

\* The rate limiter with storage that works, checking one action with every
\* limit and window.
NextLimiter ==
    \/ \E d \in LimiterDeltas : Tick(d)
    \/ \E l \in Limits, w \in WindowArgs : IsAllowed("auth_attempt", l, w, "none")
    \/ \E l \in Limits : GetRemainingAttempts("auth_attempt", l, "none")

SpecLimiter == Init /\ [][NextLimiter]_vars

\* The rate limiter with storage calls that throw and items that do not parse.
NextLimiterFaults ==
    \/ \E d \in LimiterDeltas : Tick(d)
    \/ \E l \in Limits, w \in WindowArgs, f \in {"none", "read", "write"} :
          IsAllowed("auth_attempt", l, w, f)
    \/ \E l \in Limits, f \in {"none", "read"} :
          GetRemainingAttempts("auth_attempt", l, f)
    \/ CorruptItem("auth_attempt")

SpecLimiterFaults == Init /\ [][NextLimiterFaults]_vars

\* The entitlement queries against the mirrored subscription record.
NextEntitlement ==
    \/ EffectRuns(HookUser("uA"))
    \/ \E data \in SubscriberRows : FetchSubscriptionResolves("uA", data)
    \/ \E n \in Counts : CanCreateInvoice(n)
    \/ \E n \in Counts : CanCreateClient(n)

SpecEntitlement == Init /\ [][NextEntitlement]_vars

\* The session core over page loads, with storage that never throws: one
\* user signs in and out, the clock runs past the expiry, and a new process
\* finds what was persisted, or something unreadable.
NextRestart ==
    \/ \E d \in Deltas : Tick(d)
    \/ SignOut(FALSE)
    \/ IsAuthenticated(FALSE)
    \/ \E p \in Procs : SignInStart(p, "A")
    \/ \E p \in Procs, r \in BOOLEAN : VerifyResolves(p, r)
    \/ \E p \in Procs : UpsertFails(p)
    \/ \E p \in Procs : UpsertResolves(p, "none")
    \/ \E found \in Found : Reopen(found, 0)

SpecRestart == Init /\ [][NextRestart]_vars

\* The session core with subscribers that may throw and storage that never
\* does: one user signs in and out while components register callbacks.
NextThrowing ==
    \/ \E d \in Deltas : Tick(d)
    \/ SignOut(FALSE)
    \/ IsAuthenticated(FALSE)
    \/ \E cb \in Callbacks : OnAuthStateChange(cb)
    \/ \E p \in Procs : SignInStart(p, "A")
    \/ \E p \in Procs : VerifyResolves(p, TRUE)
    \/ \E p \in Procs : UpsertResolves(p, "none")

SpecThrowing == Init /\ [][NextThrowing]_vars

\* Components register callbacks, the same function more than once too, and
\* call the handles they were given, while one user signs in and out.
NextUnsubscribe ==
    \/ SignOut(FALSE)
    \/ \E cb \in Callbacks : OnAuthStateChange(cb)
    \/ \E cb \in Callbacks : Unsubscribe(cb)
    \/ \E p \in Procs : SignInStart(p, "A")
    \/ \E p \in Procs : VerifyResolves(p, TRUE)
    \/ \E p \in Procs : UpsertResolves(p, "none")

SpecUnsubscribe == Init /\ [][NextUnsubscribe]_vars

\* Password sign-ins and sign-ups attempted in any order while the clock
\* runs, with storage that works.
NextAuthAttempts ==
    \/ \E d \in LimiterDeltas : Tick(d)
    \/ SecureSignIn
    \/ SecureSignUp

SpecAuthAttempts == Init /\ [][NextAuthAttempts]_vars

\* create-checkout-session under load: requests of two users and requests
\* without a valid token arrive while the clock runs to the end of a window
\* and past it.
NextCheckoutThrottle ==
    \/ \E d \in ServerDeltas : Tick(d)
    \/ \E r \in Slots, h \in {"none", "Bearer"} : CheckoutReceives(r, "POST", h)
    \/ \E r \in Slots, u \in CheckoutUsers \cup {""} : GetUserResolves(r, u)
    \/ \E r \in Slots : BodyParsed(r, "badPrice")

SpecCheckoutThrottle == Init /\ [][NextCheckoutThrottle]_vars

\* The two checkout functions serving requests of one user together, each
\* request getting or creating the user's customer.
NextCheckout ==
    \/ \E r \in Slots, m \in {"OPTIONS", "GET", "POST"} :
          CheckoutReceives(r, m, "Bearer")
    \/ \E r \in Slots : GetUserResolves(r, "uA")
    \/ \E r \in Slots, body \in Bodies : BodyParsed(r, body)
    \/ \E r \in Slots, m \in {"OPTIONS", "GET", "POST"} : CustomReceives(r, m)
    \/ \E r \in Slots, body \in CustomBodies, u \in {"", "uA"} :
          CustomBodyParsed(r, body, u)
    \/ \E r \in Slots : SelectResolves(r)
    \/ \E r \in Slots : RetrieveResolves(r)
    \/ \E r \in Slots : CreateResolves(r)
    \/ \E r \in Slots : UpsertSubscriberResolves(r)
    \/ \E r \in Slots : SessionResolves(r)

SpecCheckout == Init /\ [][NextCheckout]_vars

\* The provider mounted over the session core: one user signs in and out,
\* touches the page or leaves it alone while the interval fires every
\* minute, and closes the page and opens it again later.
InitIdle ==
    /\ InitAuth
    /\ InitLimiter
    /\ InitEntitlement
    /\ InitCheckout
    /\ nextPoll = ClockStart + PollMs
    /\ vreq = NoRequest
    /\ vresp = Null
    /\ vprev = Null

NextIdle ==
    \/ IntervalFires
    \/ Interaction
    \/ ProviderSignOut
    \/ \E p \in Procs : SignInStart(p, "A")
    \/ \E p \in Procs : VerifyResolves(p, TRUE)
    \/ \E p \in Procs : UpsertResolves(p, "none")
    \/ Reopen("asis", Downtime)

SpecIdle == InitIdle /\ [][NextIdle]_vars

\* The call sites of the protected actions: password sign-ins, payments and
\* Google sign-ins (here with the verifier out of reach, so that each ends
\* where it began), attempted in any order while the clock runs.
NextThrottle ==
    \/ \E d \in LimiterDeltas : Tick(d)
    \/ SecureSignIn
    \/ HandlePayment
    \/ \E p \in Procs : SignInStart(p, "A")
    \/ \E p \in Procs : VerifyResolves(p, FALSE)

SpecThrottle == Init /\ [][NextThrottle]_vars

\* The feature questions of the components against the mirrored record.
NextFeatures ==
    \/ EffectRuns(HookUser("uA"))
    \/ \E data \in SubscriberRows : FetchSubscriptionResolves("uA", data)
    \/ \E f \in FeatureQueries : HasFeature(f)
    \/ \E r \in PlanType, f \in FeatureQueries : CheckAccess(r, f)
    \/ \E r \in PlanType, f \in FeatureQueries : RenderFeatureGate(r, f)

SpecFeatures == Init /\ [][NextFeatures]_vars

\* The hook following the signed-in user: users come and go while fetches
\* are in flight, and a fetch may fail.
NextSubscription ==
    \/ \E u \in HookUsers : EffectRuns(u)
    \/ \E id \in HookUserIds : FetchSubscriptionResolves(id, SubscriberOf[id])
    \/ \E id \in HookUserIds : FetchSubscriptionFails(id)
    \/ \E n \in Counts : CanCreateInvoice(n)

SpecSubscription == Init /\ [][NextSubscription]_vars

\* ---------------------------------------------------------------- claims

\* Twenty-four hours in milliseconds, as the specification states it.
Day == 86400 * 1000

AllNotifiedNull(ls, b) ==
    /\ Len(b) = Len(ls)
    /\ \A i \in 1..Len(ls) : b[i].cb = ls[i] /\ b[i].value = Null

Returns(p) == procs[p].pc # "idle" /\ procs'[p].pc = "idle"

\* C1: a sign-in that was in flight when a signOut completed, and that
\* resolves while nobody is signed in, leaves the service signed out: no
\* session in memory or in storage, and no listener is handed a session.
C1_StaleSignInDiscarded ==
    [][\A p \in Procs :
          (procs[p].signedOutSince /\ Returns(p) /\ session = Null /\ stored = Absent)
          => /\ session' = Null
             /\ stored' = Absent
             /\ \A i \in 1..Len(batch') : batch'[i].value = Null]_vars

\* C2: a signInWithGoogle that returns an error leaves the in-memory and the
\* persisted session as they were.
C2_FailureLeavesSession ==
    [][(last'.op = "signInWithGoogle" /\ last'.ret = "error")
          => (session' = session /\ stored' = stored)]_vars

\* C3: from a sign-in that minted a session until its expiry, with no signOut
\* and no other sign-in between, getSession() returns a session of the same
\* user id whose expires_at is the minting instant plus 24 hours.
C3_SessionLastsADay ==
    (mint.live /\ now < mint.at + Day)
        => /\ getSession # Null
           /\ getSession.user.id = mint.uid
           /\ getSession.expires_at = mint.at + Day

C3_Witness ==
    /\ mint.live
    /\ now > mint.at
    /\ now < mint.at + Day
    /\ getSession # Null
    /\ last.op = "isAuthenticated"
    /\ last.ret = "true"

\* C4: an isAuthenticated() call made after the session's expires_at returns
\* false, clears the session in memory and in storage and notifies every
\* listener with null; until the next sign-in getSession() returns null.
C4_LazyExpiry ==
    /\ [][(session # Null /\ now > session.expires_at /\ last'.op = "isAuthenticated")
            => /\ last'.ret = "false"
               /\ session' = Null
               /\ stored' = Absent
               /\ AllNotifiedNull(listeners, batch')]_vars
    /\ [](lazyExpired => (getSession = Null /\ stored = Absent))

C4_Witness ==
    /\ last.op = "isAuthenticated"
    /\ last.ret = "false"
    /\ lazyExpired
    /\ Len(batch) = 2
    /\ batch[2].value = Null

\* C5: isAuthenticated() returns true exactly when there is a session whose
\* expires_at is strictly later than the current instant.
C5_TrueIffUnexpired ==
    [][last'.op = "isAuthenticated"
          => (last'.ret = "true" <=> (session # Null /\ session.expires_at > now))]_vars

\* C6: createOrUpdateUser is called only for a sign-in whose verification the
\* function answered with 200, and every row of the user store was written
\* from a credential that passes the verifier's checks.
Acceptable(c) ==
    LET t == Credentials[c]
    IN t.decodable /\ t.ok /\ t.aud = expectedAudience /\ t.exp > NowSec(now)
       /\ t.email_verified /\ t.sub = t.csub /\ t.email = t.cemail

C6_UpsertOnlyAfterVerification ==
    /\ \A p \in Procs : procs[p].pc = "awaitUpsert"
           => (procs[p].vstatus = 200 /\ Acceptable(procs[p].cred))
    /\ \A r \in users : \E c \in CredNames :
           Acceptable(c) /\ Credentials[c].name = r.full_name
                         /\ Credentials[c].csub = r.google_id

C6_Witness ==
    /\ last.op = "signInWithGoogle"
    /\ last.error = "Token verification failed"
    /\ Cardinality(users) = 2

\* C7: the function answers a well-formed POST with verified (200) exactly
\* when the five checks pass, and otherwise with the failure of the first
\* check, in the order introspection, audience, expiry, email, data match.
FirstFailure(req, t) ==
    LET d == req.tok IN
    IF ~d.ok THEN "InvalidAssertion"
    ELSE IF d.aud # expectedAudience THEN "AudienceMismatch"
    ELSE IF ~(d.exp > NowSec(t)) THEN "Expired"
    ELSE IF ~d.email_verified THEN "EmailUnverified"
    ELSE IF d.sub # d.csub \/ d.email # d.cemail THEN "DataMismatch"
    ELSE "ok"

WellFormed(req) == req.json /\ req.hasCredential /\ req.hasGoogleUser

C7_VerifiedIffFiveChecks ==
    (vresp # Null /\ vreq.method = "POST" /\ WellFormed(vreq))
        => /\ vresp.status = 200 <=> FirstFailure(vreq, now) = "ok"
           /\ vresp.reason = FirstFailure(vreq, now)

\* C8: two requests whose verification fails, for whatever reasons, are
\* answered with the same status and the same body.
VerificationFailure(resp) ==
    resp.reason \in {"InvalidAssertion", "AudienceMismatch", "Expired",
                     "EmailUnverified", "DataMismatch"}

C8_FailuresIndistinguishable ==
    (vresp # Null /\ vprev # Null /\ VerificationFailure(vresp) /\ VerificationFailure(vprev))
        => (vresp.status = vprev.status /\ vresp.body = vprev.body)

\* C9: a malformed POST (a body that is no JSON object, no credential, no
\* claimed user) is answered 400, and a well-formed one whose verification
\* fails 401.
C9_StatusByFailureClass ==
    (vresp # Null /\ vreq.method = "POST")
        => /\ ~WellFormed(vreq) => vresp.status = 400
           /\ (WellFormed(vreq) /\ FirstFailure(vreq, now) # "ok") => vresp.status = 401

\* C10: when signOut() has returned there is no session in memory, the
\* storage key is absent and every registered listener was called once, with
\* null.
C10_SignOutClears ==
    last.op = "signOut"
        => /\ session = Null
           /\ stored = Absent
           /\ AllNotifiedNull(listeners, batch)

C10_Witness ==
    /\ last.op = "signOut"
    /\ Len(listeners) = 2
    /\ batch[1].threw
    /\ batch[2].value = Null
    /\ users # {}

\* C11: the listener calls of one step are made setSession by setSession: no
\* call of an earlier setSession follows a call of a later one, and the calls
\* of each setSession go to every listener, in registration order, with one
\* and the same value.
CallsOf(b, k) == SelectSeq(b, LAMBDA c : c.tr = k)

C11_BatchesDoNotInterleave ==
    /\ \A i, j \in 1..Len(batch) : i < j => batch[i].tr <= batch[j].tr
    /\ \A k \in {batch[i].tr : i \in 1..Len(batch)} :
          /\ Len(CallsOf(batch, k)) = Len(listeners)
          /\ \A i \in 1..Len(listeners) :
                /\ CallsOf(batch, k)[i].cb = listeners[i]
                /\ CallsOf(batch, k)[i].value = CallsOf(batch, k)[1].value

\* C12: in a sign-in that succeeds, every listener that is handed the new
\* session finds that same session under the storage key during its call.
C12_PersistedBeforeNotified ==
    (last.op = "signInWithGoogle" /\ last.ret = "ok")
        => \A i \in 1..Len(batch) :
              /\ batch[i].value = Null <=> batch[i].persisted = Absent
              /\ batch[i].value # Null => Parse(batch[i].persisted) = batch[i].value

C12_Witness ==
    /\ last.op = "signInWithGoogle"
    /\ last.ret = "ok"
    /\ Len(batch) = 2
    /\ batch[1].threw
    /\ batch[2].value = session
    /\ session # Null
    /\ Parse(batch[2].persisted) = session

\* C13: a step that registers a callback calls no listener, whatever the
\* session is, and every listener call of a step goes to a callback that was
\* registered before the step.
C13_NoReplayAtRegistration ==
    [][/\ listeners' # listeners => batch' = << >>
       /\ \A i \in 1..Len(batch') :
             \E j \in 1..Len(listeners) : listeners[j] = batch'[i].cb]_vars

C13_Witness ==
    /\ last.op = "onAuthStateChange"
    /\ session # Null
    /\ Len(listeners) = 2
    /\ batch = << >>

\* The entries of an item, and those of them that lie inside the window of
\* length w that ends at t: the ones made less than w before t.
EntriesOf(item) == IF item.kind = "json" THEN ParseEntries(item) ELSE << >>

LiveEntries(item, t, w) == SelectSeq(EntriesOf(item), LAMBDA e : t - e.timestamp < w)

IsAllowedStep == rlLast'.op = "isAllowed" /\ ~rlLast'.failed

\* C14: from a key with no entries, the first L isAllowed(action, L, windowMs)
\* calls made inside one window return true, the call after them inside the
\* window returns false, and the call made when the window has elapsed since
\* those attempts returns true.
C14_LimitThenWindow ==
    [][(IsAllowedStep /\ rlRun'[rlLast'.action].n >= 1)
          => LET r == rlRun'[rlLast'.action]
             IN /\ r.n <= r.limit => rlLast'.allowed
                /\ r.n = r.limit + 1 => ~rlLast'.allowed
                /\ r.n = r.limit + 2 => rlLast'.allowed]_vars

\* C15: isAllowed counts exactly the entries made less than the windowMs it
\* was given ago (one hour when none is given), and an accepted call leaves
\* those entries and the new one.
C15_DiscardsByGivenWindow ==
    [][IsAllowedStep
          => LET key == getKey(rlLast'.action)
                 live == LiveEntries(rlStore[key], now, rlLast'.windowMs)
             IN /\ rlLast'.allowed <=> totalCount(live) < rlLast'.limit
                /\ rlLast'.allowed
                      => ParseEntries(rlStore'[key])
                            = Append(live, [timestamp |-> now, count |-> 1])]_vars

\* C16: right after an accepted check, the counts of the stored entries that
\* lie inside the window of the check, and inside the hour, sum to at most
\* the limit of the check.
C16_LiveSumWithinLimit ==
    (rlLast.op = "isAllowed" /\ rlLast.allowed /\ ~rlLast.failed)
        => LET item == rlStore[getKey(rlLast.action)]
           IN /\ totalCount(LiveEntries(item, now, rlLast.windowMs)) <= rlLast.limit
              /\ totalCount(LiveEntries(item, now, oneHour)) <= rlLast.limit

C16_Witness ==
    /\ rlLast.op = "isAllowed"
    /\ rlLast.allowed
    /\ rlLast.limit = 2
    /\ ticks > 0
    /\ totalCount(LiveEntries(rlStore[getKey(rlLast.action)], now, oneHour)) = 2

\* C17: a rejected check finds the live sum at or above the limit and leaves
\* every item as it was; an accepted check leaves entries of the old item, in
\* their order, followed by one new entry with count 1 and the current time.
C17_RejectedRecordsNothing ==
    [][IsAllowedStep
          => LET key == getKey(rlLast'.action)
                 old == EntriesOf(rlStore[key])
                 new == EntriesOf(rlStore'[key])
                 front == SubSeq(new, 1, Len(new) - 1)
             IN /\ \A k \in DOMAIN rlStore : k # key => rlStore'[k] = rlStore[k]
                /\ ~rlLast'.allowed
                      => /\ rlStore' = rlStore
                         /\ totalCount(LiveEntries(rlStore[key], now, oneHour)) >= rlLast'.limit
                /\ rlLast'.allowed
                      => /\ Len(new) >= 1
                         /\ new[Len(new)] = [timestamp |-> now, count |-> 1]
                         /\ front = SelectSeq(old, LAMBDA e :
                                        \E i \in 1..Len(front) : front[i] = e)]_vars

C17_Witness ==
    /\ rlLast.op = "isAllowed"
    /\ ~rlLast.allowed
    /\ ~rlLast.failed
    /\ ticks > 0
    /\ Len(rlStore[getKey(rlLast.action)].text) = 2

\* C18: getRemainingAttempts returns max(0, limit - live count), the limit
\* when nothing is stored, never a negative number; it writes nothing, so
\* every isAllowed call that follows answers as it would have without it.
C18_RemainingIsPure ==
    [][(rlLast'.op = "getRemainingAttempts" /\ ~rlLast'.failed)
          => LET key == getKey(rlLast'.action)
                 count == totalCount(LiveEntries(rlStore[key], now, oneHour))
             IN /\ rlLast'.remaining >= 0
                /\ rlLast'.remaining
                      = (IF rlLast'.limit > count THEN rlLast'.limit - count ELSE 0)
                /\ rlStore[key] = NoItem => rlLast'.remaining = rlLast'.limit
                /\ rlStore' = rlStore
                /\ \A l \in Limits, w \in WindowArgs :
                      isAllowed(rlStore'[key], l, windowMsOf(w), now, "none")
                        = isAllowed(rlStore[key], l, windowMsOf(w), now, "none")]_vars

C18_Witness ==
    /\ rlLast.op = "getRemainingAttempts"
    /\ rlLast.limit = 1
    /\ rlLast.remaining = 0
    /\ totalCount(LiveEntries(rlStore[getKey(rlLast.action)], now, oneHour)) = 2

\* C19: a check during which getItem, JSON.parse or setItem throws answers
\* allowed, and getRemainingAttempts then answers the full limit; a call on
\* an item that does not parse is such a check.
C19_FailOpen ==
    /\ rlLast.failed
          => /\ rlLast.op = "isAllowed" => rlLast.allowed
             /\ rlLast.op = "getRemainingAttempts" => rlLast.remaining = rlLast.limit
    /\ (rlLast.op # "none" /\ rlStore[getKey("auth_attempt")] = Garbage) => rlLast.failed

C19_Witness ==
    /\ rlLast.op = "isAllowed"
    /\ rlLast.failed
    /\ rlLast.allowed
    /\ rlLast.limit = 1
    /\ totalCount(LiveEntries(rlStore[getKey(rlLast.action)], now, oneHour)) = 2

\* C20: canCreateInvoice(n) and canCreateClient(n) answer true exactly when
\* the ceiling of the current tier is -1 or n is below it: under free for
\* fewer than 5 invoices and fewer than 10 clients, under pro and business
\* for every n.
CurrentTier ==
    IF subscription = Null THEN "free" ELSE subscription.subscription_tier

C20_CanCreateBelowCeiling ==
    /\ entLast.op = "canCreateInvoice"
          => /\ entLast.ret <=> (\/ PLANS[CurrentTier].limits.invoices = -1
                                 \/ entLast.count < PLANS[CurrentTier].limits.invoices)
             /\ entLast.ret <=> (CurrentTier \in {"pro", "business"} \/ entLast.count < 5)
    /\ entLast.op = "canCreateClient"
          => /\ entLast.ret <=> (\/ PLANS[CurrentTier].limits.clients = -1
                                 \/ entLast.count < PLANS[CurrentTier].limits.clients)
             /\ entLast.ret <=> (CurrentTier \in {"pro", "business"} \/ entLast.count < 10)

C20_Witness ==
    /\ entLast.op = "canCreateInvoice"
    /\ entLast.count = 5
    /\ ~entLast.ret
    /\ subscription # Null
    /\ subscription.subscription_tier = "free"

\* The total order free < pro < business, and the record of a subscriber of
\* a given tier.
TierRank == [free |-> 0, pro |-> 1, business |-> 2]

AtTier(tier) ==
    [kind |-> "subscriber", subscribed |-> TRUE, subscription_tier |-> tier]

\* C21: hasFeature is cumulative over free < pro < business: a feature
\* string for which hasFeature answers true under the current tier gets
\* true under every higher tier too.
C21_HasFeatureCumulative ==
    (entLast.op = "hasFeature" /\ entLast.ret)
        => \A hi \in PlanType :
              TierRank[hi] > TierRank[CurrentTier]
                  => hasFeature(AtTier(hi), entLast.feature)

\* C28: checkAccess(requiredTier, feature) is monotone in the current tier:
\* access granted under the current tier is granted under every higher one.
C28_CheckAccessMonotone ==
    (entLast.op = "checkAccess" /\ entLast.ret)
        => \A hi \in PlanType :
              TierRank[hi] > TierRank[CurrentTier]
                  => checkAccess(AtTier(hi), entLast.required, entLast.feature)

\* C29: FeatureGate renders its children exactly when checkAccess, asked
\* with the same required tier and feature under the same current tier,
\* returns true.
C29_GateAgreesWithCheckAccess ==
    entLast.op = "FeatureGate"
        => (entLast.ret
              <=> checkAccess(subscription, entLast.required, entLast.feature))

\* C22: whenever there is no user, or the user has no row of subscribers
\* and no fetch of theirs is still in flight, getTier() is 'free'; also
\* after a fetch started for a user who has signed out since resolves, and
\* after the fetch of a newly signed-in user fails.
C22_FreeWithoutUserOrRecord ==
    (\/ hookUser = Null
     \/ (SubscriberOf[hookUser.id] = Null /\ hookUser.id \notin fetching))
        => getTier(subscription) = "free"

\* The step in which the upsert of sign-in p is applied.
UpsertStep(p) ==
    /\ procs[p].pc = "awaitUpsert"
    /\ procs'[p].pc = "idle"
    /\ last'.error # "User creation failed"

\* C23: every upsert leaves exactly one row for its google_id, holding the
\* name, email and avatar of that upsert, and leaves the rows of the other
\* subjects as they were; so after any sequence of sign-ins for a subject
\* there is one row for it, with the values of the upsert applied last.
C23_UpsertIdempotent ==
    [][\A p \in Procs :
          UpsertStep(p)
              => LET g == decodeGoogleToken(procs[p].cred)
                     rows == {r \in users' : r.google_id = g.id}
                 IN /\ Cardinality(rows) = 1
                    /\ \A r \in rows : /\ r.full_name = g.name
                                       /\ r.email = g.email
                                       /\ r.avatar_url = g.picture
                    /\ {r \in users' : r.google_id # g.id}
                          = {r \in users : r.google_id # g.id}
                    /\ \A r1, r2 \in users' :
                          r1.google_id = r2.google_id => r1 = r2]_vars

\* Subject gA signed in as 'Ann' (the session still persisted) and then as
\* 'Anna': one row, named 'Anna'.
C23_Witness ==
    /\ stored # Absent
    /\ Parse(stored).user.name = "Ann"
    /\ \E r \in users : r.google_id = "gA" /\ r.full_name = "Anna"
    /\ Cardinality({r \in users : r.google_id = "gA"}) = 1

\* {user, error} with exactly one of the two non-null, from a promise that
\* resolved.
OneOfUserAndError(r) ==
    /\ r.ret \in {"ok", "error"}
    /\ (r.user # Null) <=> (r.error = "")
    /\ r.error # "" => r.user = Null

\* C24: every signInWithGoogle call that ends, whatever failed in it
\* (decoding, verification, upsert, either setItem), ends by returning a
\* result with exactly one of user and error non-null; the user is null
\* whenever the error is set.
C24_NoFailureEscapes ==
    [][/\ last'.op = "signInWithGoogle" => OneOfUserAndError(last')
       /\ \A p \in Procs :
             (procs[p].pc # "idle" /\ procs'[p].pc = "idle")
                 => last'.op = "signInWithGoogle"]_vars

\* A sign-in whose session could not be persisted returned {user: null,
\* error}, with the session already assigned in memory.
C24_Witness ==
    /\ last.op = "signInWithGoogle"
    /\ last.ret = "error"
    /\ last.error = "QuotaExceededError"
    /\ last.user = Null
    /\ session # Null
    /\ stored = Absent

\* A stored value that parses as an object with an expires_at.
Readable(st) == st # Absent /\ Len(st) = 7

C26_IdleTimeout ==
    [][/\ (last'.op = "checkSession" /\ session # Null /\ lastActivity # Absent
              /\ now' - parseInt(lastActivity) > IDLE_TIMEOUT)
          => session' = Null
       /\ (last'.op = "updateActivity" /\ session # Null)
          => lastActivity' = toString(now')
       /\ session' # Null
          => /\ lastActivity' # Absent
             /\ now' - parseInt(lastActivity') <= IDLE_TIMEOUT + PollMs]_vars

\* The attempts of an action accepted within the last hour.
Accepted(action) == totalCount(LiveEntries(rlStore[getKey(action)], now, oneHour))

\* C27: an attempt reaches the identity verifier, the auth backend or the
\* checkout creation only while fewer attempts of its action than the
\* configured number (5 sign-ins, 3 payments) were accepted within the hour,
\* and is then counted as accepted itself; this for every sign-in path,
\* signInWithGoogle included.
C27_ThrottledBeforeBackend ==
    [][/\ (last'.op = "secureSignIn" /\ last'.ret = "auth.signIn")
          => /\ Accepted("auth_attempt") < AUTH_ATTEMPTS_PER_HOUR
             /\ Accepted("auth_attempt")' = Accepted("auth_attempt") + 1
       /\ (last'.op = "handlePayment" /\ last'.ret = "createCheckoutSession")
          => /\ Accepted("payment_attempt") < PAYMENT_ATTEMPTS_PER_HOUR
             /\ Accepted("payment_attempt")' = Accepted("payment_attempt") + 1
       /\ \A p \in Procs :
             (procs[p].pc = "idle" /\ procs'[p].pc = "awaitVerify")
                 => /\ Accepted("auth_attempt") < AUTH_ATTEMPTS_PER_HOUR
                    /\ Accepted("auth_attempt")' = Accepted("auth_attempt") + 1]_vars

\* C31: a session comes into being only in the step that ends a sign-in
\* whose assertion the verifier answered with 200, and the google_id and
\* email of its user are the sub and email that tokeninfo gave for that
\* assertion, not merely what the client decoded from it.
C31_SessionIdentityVerified ==
    [][(session' # Null /\ session' # session)
          => \E p \in Procs :
                LET tokenData == Credentials[procs[p].cred]
                IN /\ UpsertStep(p)
                   /\ procs[p].vstatus = 200
                   /\ tokenData.ok
                   /\ session'.user.google_id = tokenData.sub
                   /\ session'.user.email = tokenData.email]_vars

\* B's sign-in has just returned its user: the session and the only row
\* carry the sub and email tokeninfo gave for B's assertion.
C31_Witness ==
    /\ session # Null
    /\ session.user.google_id = "gB"
    /\ session.user.email = "b@x"
    /\ last.op = "signInWithGoogle"
    /\ last.user # Null
    /\ \A r \in users : r.google_id = "gB"

\* C32: in a step in which a listener throws, every registered listener is
\* still called, in registration order, with the session the step leaves in
\* memory; that session is what the storage key holds; and a sign-in
\* returns its user with no error, a sign-out returns without one.
C32_ThrowingListenerIsContained ==
    (\E i \in 1..Len(batch) : batch[i].threw)
        => /\ Len(batch) = Len(listeners)
           /\ \A i \in 1..Len(batch) :
                 batch[i].cb = listeners[i] /\ batch[i].value = session
           /\ stored = saveSessionToStorage(session)
           /\ last.error = ""
           /\ last.op = "signInWithGoogle"
                 => /\ session # Null
                    /\ last.ret = "ok"
                    /\ last.user = session.user
           /\ last.op = "signOut" => session = Null

\* A sign-in with the throwing callback registered before the provider's:
\* the provider's is handed the session, which is persisted, and the call
\* returns the user.
C32_Witness ==
    /\ last.op = "signInWithGoogle"
    /\ last.user # Null
    /\ listeners = <<"cbThrows", "cbProvider">>
    /\ Len(batch) = 2
    /\ batch[1].threw
    /\ batch[2].cb = "cbProvider"
    /\ batch[2].value = session
    /\ stored = Stringify(session)

\* The listeners ls without the registration at position i; position 0
\* stands for a registration that is no longer among them.
WithoutRegistration(ls, i) ==
    [j \in 1..(Len(ls) - (IF i = 0 THEN 0 ELSE 1)) |->
        IF i = 0 \/ j < i THEN ls[j] ELSE ls[j + 1]]

\* C33: calling an unsubscribe handle removes the one registration it was
\* returned for, a registration of its callback, and leaves every other
\* registration in place and in order, another registration of the same
\* callback function included; a handle whose registration is gone already
\* removes nothing.
C33_UnsubscribeRemovesOneRegistration ==
    [][last'.op = "unsubscribe"
          => \E i \in 0..Len(listeners) :
                /\ i = 0 => \A j \in 1..Len(listeners) : listeners[j] # last'.ret
                /\ i # 0 => listeners[i] = last'.ret
                /\ listeners' = WithoutRegistration(listeners, i)]_vars

\* The entries under the key of 'auth_attempt' in store that are less than
\* an hour old at t.
AuthAttemptsWithin(store, t) == LiveEntries(store[getKey("auth_attempt")], t, oneHour)

PasswordCall == last'.op \in {"secureSignIn", "secureSignUp"}
Forwarded == PasswordCall /\ last'.ret \in {"auth.signIn", "auth.signUp"}

\* C34: secureSignIn and secureSignUp draw on one budget.  A call of either
\* is forwarded to the auth backend only while fewer than 5 calls of the two
\* were forwarded within the last hour, and is then recorded for an hour; a
\* call that is not forwarded returns 'Rate limit exceeded'; and no step
\* forgets a forwarded call that is less than an hour old.  So the calls
\* forwarded in any one hour are at most 5.
C34_SignInAndSignUpShareBudget ==
    [][/\ Forwarded
          => /\ totalCount(AuthAttemptsWithin(rlStore, now)) < AUTH_ATTEMPTS_PER_HOUR
             /\ AuthAttemptsWithin(rlStore', now')
                    = Append(AuthAttemptsWithin(rlStore, now'), NewEntry(now'))
       /\ (PasswordCall /\ ~Forwarded)
          => /\ last'.ret = "Rate limit exceeded"
             /\ totalCount(AuthAttemptsWithin(rlStore, now)) >= AUTH_ATTEMPTS_PER_HOUR
       /\ ~Forwarded
          => AuthAttemptsWithin(rlStore', now') = AuthAttemptsWithin(rlStore, now')
       /\ \A i \in 1..Len(AuthAttemptsWithin(rlStore', now')) :
             AuthAttemptsWithin(rlStore', now')[i].count = 1]_vars

\* A sign-up is refused: 5 calls forwarded at two different instants of the
\* last hour are on record.
C34_Witness ==
    /\ last.op = "secureSignUp"
    /\ last.ret = "Rate limit exceeded"
    /\ Len(AuthAttemptsWithin(rlStore, now)) = AUTH_ATTEMPTS_PER_HOUR
    /\ AuthAttemptsWithin(rlStore, now)[1].timestamp
          # AuthAttemptsWithin(rlStore, now)[AUTH_ATTEMPTS_PER_HOUR].timestamp

\* The step in which create-checkout-session learns the user of request r,
\* and the user it learns ('' when authentication fails).
Authenticates(r) == checkouts[r].pc = "getUser" /\ checkouts'[r].pc # "getUser"
UserOf(r) == IF checkouts'[r].pc = "json" THEN checkouts'[r].user ELSE response'.user
AcceptedBy(r) == checkouts'[r].pc = "json"

\* C35: per user id the throttle is a fixed window.  The first request
\* accepted for a user, or the first made after resetTime has passed, opens
\* a window of 5 minutes with the counter at 1; while the window is open a
\* request is accepted exactly when fewer than 5 were, and is then counted;
\* a refused request is answered 429 and changes nothing; the counter never
\* exceeds 5; and a request without a user is answered 401 and leaves every
\* user's counter as it was, as does every other step.
C35_FixedWindowPerUser ==
    [][/\ \A r \in Slots :
             Authenticates(r)
                => LET u == UserOf(r)
                   IN IF u = ""
                      THEN response'.status = 401 /\ rateLimits' = rateLimits
                      ELSE LET old == rateLimits[u]
                               new == rateLimits'[u]
                           IN /\ \A v \in CheckoutUsers \ {u} :
                                    rateLimits'[v] = rateLimits[v]
                              /\ (old = NoLimit \/ now > old.resetTime)
                                    => /\ AcceptedBy(r)
                                       /\ new = [count |-> 1,
                                                 resetTime |-> now + CHECKOUT_WINDOW_MS]
                              /\ (old # NoLimit /\ now <= old.resetTime)
                                    => /\ AcceptedBy(r) <=> old.count < CHECKOUT_LIMIT
                                       /\ AcceptedBy(r)
                                             => new = [old EXCEPT !.count = old.count + 1]
                                       /\ ~AcceptedBy(r)
                                             => response'.status = 429 /\ new = old
       /\ (\A r \in Slots : ~Authenticates(r)) => rateLimits' = rateLimits
       /\ \A u \in CheckoutUsers : rateLimits'[u].count <= CHECKOUT_LIMIT]_vars

\* A sixth request of uA is answered 429 at the very instant of resetTime,
\* with the counter at 5, while uB's window, opened later, stands at 1.
C35_Witness ==
    /\ response.status = 429
    /\ response.user = "uA"
    /\ rateLimits["uA"].count = CHECKOUT_LIMIT
    /\ now = rateLimits["uA"].resetTime
    /\ rateLimits["uB"].count = 1
    /\ rateLimits["uB"].resetTime > rateLimits["uA"].resetTime

\* The customers created for user u.
CustomersOf(cs, u) == {c \in cs : c.user_id = u}

\* C36: at most one customer is ever created for a user, whatever the order
\* in which the steps of the requests for that user are taken, and a request
\* that finds a customer id stored goes on with that id and creates none.
C36_OneCustomerPerUser ==
    [][/\ \A u \in CheckoutUsers : Cardinality(CustomersOf(customers', u)) <= 1
       /\ \A r \in Slots :
             (checkouts[r].pc = "select" /\ checkouts'[r].pc # "select"
                 /\ subscribers[checkouts[r].user] # NoCustomer)
                => /\ checkouts'[r].customer = subscribers[checkouts[r].user]
                   /\ checkouts'[r].pc = "retrieve"
                   /\ customers' = customers]_vars
====
